---------------------------- MODULE Spec2Model ----------------------------
(***************************************************************************)
(* A model of cmdlp: the tokenizer (detail/tokenizer.hpp), the option      *)
(* classes (detail/option.hpp), the option registry                        *)
(* (detail/option_list.hpp) and the parser (parser.hpp).                   *)
(*                                                                         *)
(* A std::string is a sequence of one-character strings, so that prefix    *)
(* tests, substr and the character classes of isNumber are computed and    *)
(* not assumed.  The field MultiOption::selected_value is the field the    *)
(* parser and the registry read as mopt->value.                            *)
(***************************************************************************)
EXTENDS Integers, Sequences, FiniteSets, TLC

VARIABLES
    tokens,                 \* Tokenizer::tokens (token 1 is the program name)
    options,                \* OptionList::options, in registration order
    longest_short_option,   \* OptionList::longest_short_option
    longest_long_option,    \* OptionList::longest_long_option
    longest_value,          \* OptionList::longest_value
    option_parsed,          \* Parser::option_parsed
    registered,             \* history: every option as it was when registered
    call,                   \* history: the last call, its arguments and outcome
    parse_calls             \* history: number of parseOptions calls so far

vars == <<tokens, options, longest_short_option, longest_long_option,
          longest_value, option_parsed, registered, call, parse_calls>>

-----------------------------------------------------------------------------
(* Bounds of the model. *)

\* Largest number of registry entries in the registration scenario.
MaxOptions == 3
\* Largest number of parseOptions calls on one parser.
MaxParses == 2
\* Largest number of tokens after the program name.
MaxArgs == 3
\* Largest number of tokens after the program name in the positional scenario.
MaxPosArgs == 4

-----------------------------------------------------------------------------
(* Strings. *)

Max(a, b) == IF a >= b THEN a ELSE b

\* s.rfind(p, 0) == 0 : s starts with p.
StartsWith(s, p) == Len(s) >= Len(p) /\ SubSeq(s, 1, Len(p)) = p

\* s.substr(pos) for pos <= s.length().
Substr(s, pos) == SubSeq(s, pos + 1, Len(s))

\* The characters isNumber accepts: "-.eE0123456789".
NumberChars == {"-", ".", "e", "E", "0", "1", "2", "3", "4", "5", "6", "7", "8", "9"}

-----------------------------------------------------------------------------
(* detail/tokenizer.hpp *)

isNumber(token) ==
    /\ token # <<>>
    /\ \A i \in 1..Len(token) : token[i] \in NumberChars

\* An isOption without the exemption for numbers.
isOption_NoNumbers(token) ==
    /\ token # <<>>
    /\ token[1] = "-"

isOption(token) ==
    /\ token # <<>>
    /\ token[1] = "-"
    /\ ~isNumber(token)

\* The loop of Tokenizer::getOption from iterator position it (1-based).
RECURSIVE getOptionFrom(_, _, _)
getOptionFrom(toks, option, it) ==
    IF it > Len(toks) THEN <<>>
    ELSE IF toks[it] = option
         THEN IF it + 1 <= Len(toks) /\ ~isOption(toks[it + 1])
              THEN toks[it + 1]
              ELSE getOptionFrom(toks, option, it + 1)
    ELSE IF /\ Len(option) > 2
            /\ SubSeq(option, 1, 2) = <<"-", "-">>
            /\ StartsWith(toks[it], option \o <<"=">>)
         THEN Substr(toks[it], Len(option) + 1)
    ELSE IF /\ Len(option) = 2
            /\ SubSeq(option, 1, 1) = <<"-">>
            /\ StartsWith(toks[it], option)
            /\ Len(toks[it]) > 2
         THEN Substr(toks[it], 2)
    ELSE getOptionFrom(toks, option, it + 1)

\* Tokenizer::getOption: the search starts after the program name.
Tokenizer_getOption(toks, option) == getOptionFrom(toks, option, 2)

\* Tokenizer::hasOption.
Tokenizer_hasOption(toks, option) == \E i \in 2..Len(toks) : toks[i] = option

-----------------------------------------------------------------------------
(* detail/option.hpp *)

\* The checks of Option::Option on the two names.
Option_ctor_ok(opt_short, opt_long) ==
    /\ (opt_short = <<>> \/ opt_short[1] = "-")
    /\ (opt_long = <<>> \/ (Len(opt_long) >= 2 /\ SubSeq(opt_long, 1, 2) = <<"-", "-">>))

\* MultiOption::isValueAllowed.
isValueAllowed(allowed_values, value) ==
    \E i \in 1..Len(allowed_values) : allowed_values[i] = value

\* An option object; the fields a class does not have keep a neutral value.
MakeOption(kind, opt_short, opt_long, required, value, toggled, allowed_values, selected_value) ==
    [kind |-> kind, opt_short |-> opt_short, opt_long |-> opt_long,
     required |-> required, value |-> value, toggled |-> toggled,
     allowed_values |-> allowed_values, selected_value |-> selected_value,
     values |-> <<>>]

ValueOption(s, l, required, value) ==
    MakeOption("ValueOption", s, l, required, value, FALSE, <<>>, <<>>)

ToggleOption(s, l, toggled) ==
    MakeOption("ToggleOption", s, l, FALSE, <<>>, toggled, <<>>, <<>>)

MultiOption(s, l, allowed_values, value) ==
    MakeOption("MultiOption", s, l, FALSE, <<>>, FALSE, allowed_values, value)

PositionalOption(s, l, required, value) ==
    MakeOption("PositionalOption", s, l, required, value, FALSE, <<>>, <<>>)

PositionalList(s, l, required) ==
    MakeOption("PositionalList", s, l, required, <<>>, FALSE, <<>>, <<>>)

Separator ==
    MakeOption("Separator", <<>>, <<>>, FALSE, <<>>, FALSE, <<>>, <<>>)

RECURSIVE MaxLength(_)
MaxLength(strs) ==
    IF strs = <<>> THEN 0 ELSE Max(Len(Head(strs)), MaxLength(Tail(strs)))

\* The length of "true" / "false" that ToggleOption::get_value_length returns.
ToggleValueLength == 5

\* The overrides of Option::get_value_length.
get_value_length(o) ==
    CASE o.kind = "ValueOption"      -> Len(o.value)
      [] o.kind = "ToggleOption"     -> ToggleValueLength
      [] o.kind = "MultiOption"      -> MaxLength(o.allowed_values)
      [] o.kind = "PositionalOption" -> Len(o.value)
      [] o.kind = "PositionalList"   -> MaxLength(o.values)
      [] OTHER                       -> 0

RECURSIVE SumLength(_)
SumLength(strs) ==
    IF strs = <<>> THEN 0 ELSE Len(Head(strs)) + SumLength(Tail(strs))

\* The length of PositionalList::print_values(): the values joined by ", ".
print_values_length(values) ==
    IF values = <<>> THEN 0 ELSE SumLength(values) + 2 * (Len(values) - 1)

-----------------------------------------------------------------------------
(* detail/option_list.hpp *)

\* A registry whose duplicate test compares the short names only.
NameClash_ShortOnly(it, option) ==
    it.opt_short = option.opt_short

\* The duplicate test of OptionList::addOption against one registered entry.
NameClash(it, option) ==
    it.opt_short = option.opt_short \/ it.opt_long = option.opt_long

\* OptionList::addOption on registry state reg = [options, longest_*].
\* The result carries the exception raised, "none" when the option was added.
OptionList_addOption(reg, option) ==
    IF option.kind = "Separator"
    THEN [reg EXCEPT !.options = Append(@, option), !.raised = "none"]
    ELSE IF \E i \in 1..Len(reg.options) : NameClash(reg.options[i], option)
    THEN [reg EXCEPT !.raised = "OptionExistException"]
    ELSE [options              |-> Append(reg.options, option),
          longest_short_option |-> Max(Len(option.opt_short), reg.longest_short_option),
          longest_long_option  |-> Max(Len(option.opt_long), reg.longest_long_option),
          longest_value        |-> Max(get_value_length(option), reg.longest_value),
          raised               |-> "none"]

\* OptionList::find: the index of the first entry with that short or long
\* name, 0 for nullptr.
RECURSIVE findFrom(_, _, _)
findFrom(opts, option, i) ==
    IF i > Len(opts) THEN 0
    ELSE IF opts[i].opt_short = option \/ opts[i].opt_long = option THEN i
    ELSE findFrom(opts, option, i + 1)

OptionList_find(opts, option) == findFrom(opts, option, 1)

\* The string OptionList::getOption<T> converts for entry i, "none" when the
\* entry holds no convertible value.
ValueHolders == {"ValueOption", "ToggleOption", "MultiOption", "PositionalOption"}

value_str(o) ==
    CASE o.kind = "ValueOption"      -> o.value
      [] o.kind = "ToggleOption"     -> IF o.toggled THEN <<"t", "r", "u", "e">>
                                        ELSE <<"f", "a", "l", "s", "e">>
      [] o.kind = "MultiOption"      -> o.selected_value
      [] o.kind = "PositionalOption" -> o.value
      [] OTHER                       -> <<>>

\* OptionList::getOption<std::string>: the string returned, or what is thrown.
getOption_string(opts, option_string) ==
    LET i == OptionList_find(opts, option_string)
    IN  IF i # 0 /\ opts[i].kind \in ValueHolders
        THEN [raised |-> "none", data |-> value_str(opts[i])]
        ELSE [raised |-> "std::out_of_range", data |-> <<>>]

\* operator>>(int&) of a stringstream holding str: leading white space is
\* skipped, then a sign and decimal digits are read; fail is the stream's
\* failbit and eof tells whether the extraction reached the end of str.
\* White space is what std::isspace accepts in the C locale: space, \t, \n,
\* \v, \f and \r (the vertical tab, 0x0B, is written as the character itself).
\* data is the int the extraction wrote: the number read, the nearest end of
\* the range of int when the digits are out of range, 0 when there is no
\* digit.  When str ends before any character is extracted the code leaves
\* its int unwritten; getOption throws then and never reads it, and 0
\* stands for it here.
WhiteSpace == {" ", "\t", "\n", "", "\f", "\r"}
DigitChars == <<"0", "1", "2", "3", "4", "5", "6", "7", "8", "9">>
DigitSet == {DigitChars[d] : d \in 1..Len(DigitChars)}
DigitValue(c) == (CHOOSE d \in 1..Len(DigitChars) : DigitChars[d] = c) - 1
IntMax == (2^30 - 1) + 2^30

\* The first position from pos on whose character is not in chars.
RECURSIVE SkipWhile(_, _, _)
SkipWhile(str, pos, chars) ==
    IF pos > Len(str) \/ str[pos] \notin chars THEN pos
    ELSE SkipWhile(str, pos + 1, chars)

\* Minus the number the digits spell, 1 when it is out of the range of int
\* (negative tells which end of the range applies).
RECURSIVE NegatedValue(_, _)
NegatedValue(digits, negative) ==
    IF digits = <<>> THEN 0
    ELSE LET front == NegatedValue(SubSeq(digits, 1, Len(digits) - 1), negative)
             digit == DigitValue(digits[Len(digits)])
             limit == (IntMax % 10) + (IF negative THEN 1 ELSE 0)
         IN  IF front = 1 THEN 1
             ELSE IF \/ front > 0 - (IntMax \div 10)
                     \/ (front = 0 - (IntMax \div 10) /\ digit <= limit)
             THEN 10 * front - digit
             ELSE 1

extract_int(str) ==
    LET begin    == SkipWhile(str, 1, WhiteSpace)
        signed   == begin <= Len(str) /\ str[begin] \in {"-", "+"}
        negative == signed /\ str[begin] = "-"
        first    == IF signed THEN begin + 1 ELSE begin
        last     == SkipWhile(str, first, DigitSet)
        digits   == SubSeq(str, first, last - 1)
        negated  == NegatedValue(digits, negative)
    IN  [fail |-> digits = <<>> \/ negated = 1,
         eof  |-> last > Len(str),
         data |-> IF digits = <<>> THEN 0
                  ELSE IF negated = 1
                  THEN (IF negative THEN (0 - IntMax) - 1 ELSE IntMax)
                  ELSE IF negative THEN negated ELSE 0 - negated]

\* A getOption<int> that does not look at what the extraction left unread.
getOption_int_Lenient(opts, option_string) ==
    LET i  == OptionList_find(opts, option_string)
        ss == extract_int(value_str(opts[i]))
    IN  IF i = 0 THEN [raised |-> "std::out_of_range", data |-> 0]
        ELSE IF opts[i].kind \notin ValueHolders \/ ss.fail
        THEN [raised |-> "BadConversion", data |-> 0]
        ELSE [raised |-> "none", data |-> ss.data]

\* OptionList::getOption<int>: the integer returned, or what is thrown.
getOption_int(opts, option_string) ==
    LET i  == OptionList_find(opts, option_string)
        ss == extract_int(value_str(opts[i]))
    IN  IF i = 0 THEN [raised |-> "std::out_of_range", data |-> 0]
        ELSE IF opts[i].kind \notin ValueHolders \/ ss.fail \/ ~ss.eof
        THEN [raised |-> "BadConversion", data |-> 0]
        ELSE [raised |-> "none", data |-> ss.data]

\* A getOption<bool> that reads the first letter in either case.
getOption_bool_AnyCase(opts, option_string) ==
    LET i == OptionList_find(opts, option_string)
    IN  IF i = 0 THEN [raised |-> "std::out_of_range", data |-> FALSE]
        ELSE IF opts[i].kind \notin {"ToggleOption", "ValueOption"}
        THEN [raised |-> "BadConversion", data |-> FALSE]
        ELSE IF value_str(opts[i]) \in {<<"t", "r", "u", "e">>, <<"T", "r", "u", "e">>}
        THEN [raised |-> "none", data |-> TRUE]
        ELSE IF value_str(opts[i]) \in {<<"f", "a", "l", "s", "e">>, <<"F", "a", "l", "s", "e">>}
        THEN [raised |-> "none", data |-> FALSE]
        ELSE [raised |-> "BadConversion", data |-> FALSE]

\* A getOption<bool> that converts the string of any option that holds one.
getOption_bool_AnyHolder(opts, option_string) ==
    LET i == OptionList_find(opts, option_string)
    IN  IF i = 0 THEN [raised |-> "std::out_of_range", data |-> FALSE]
        ELSE IF opts[i].kind \notin ValueHolders
        THEN [raised |-> "BadConversion", data |-> FALSE]
        ELSE IF value_str(opts[i]) = <<"t", "r", "u", "e">>
        THEN [raised |-> "none", data |-> TRUE]
        ELSE IF value_str(opts[i]) = <<"f", "a", "l", "s", "e">>
        THEN [raised |-> "none", data |-> FALSE]
        ELSE [raised |-> "BadConversion", data |-> FALSE]

\* OptionList::getOption<bool>: the boolean returned, or what is thrown.
getOption_bool(opts, option_string) ==
    LET i == OptionList_find(opts, option_string)
    IN  IF i = 0 THEN [raised |-> "std::out_of_range", data |-> FALSE]
        ELSE IF opts[i].kind \notin {"ToggleOption", "ValueOption"}
        THEN [raised |-> "BadConversion", data |-> FALSE]
        ELSE IF value_str(opts[i]) = <<"t", "r", "u", "e">>
        THEN [raised |-> "none", data |-> TRUE]
        ELSE IF value_str(opts[i]) = <<"f", "a", "l", "s", "e">>
        THEN [raised |-> "none", data |-> FALSE]
        ELSE [raised |-> "BadConversion", data |-> FALSE]

\* A getOption<std::vector<std::string>> that returns the default value of
\* its type when there is no list of that name.
getOption_list_Default(opts, option_string) ==
    LET i == OptionList_find(opts, option_string)
    IN  [raised |-> "none",
         data   |-> IF i # 0 /\ opts[i].kind = "PositionalList"
                    THEN opts[i].values ELSE <<>>]

\* OptionList::getOption<std::vector<std::string>>: the list returned, or
\* what is thrown.
getOption_list(opts, option_string) ==
    LET i == OptionList_find(opts, option_string)
    IN  IF i # 0 /\ opts[i].kind = "PositionalList"
        THEN [raised |-> "none", data |-> opts[i].values]
        ELSE [raised |-> "std::out_of_range", data |-> <<>>]

\* A parser that never looks for a registered PositionalList.
HasPositionalList_Never(opts) == FALSE

\* The loop of addPositionalOption / addPositionalList over the registry.
HasPositionalList(opts) == \E i \in 1..Len(opts) : opts[i].kind = "PositionalList"

-----------------------------------------------------------------------------
(* parser.hpp: registration *)

Registry ==
    [options |-> options, longest_short_option |-> longest_short_option,
     longest_long_option |-> longest_long_option, longest_value |-> longest_value,
     raised |-> "none"]

\* The arguments of a call that registers nothing.
NoOption == MakeOption("none", <<>>, <<>>, FALSE, <<>>, FALSE, <<>>, <<>>)

\* The record of a call kept in the history variable: the operation, the
\* option it was given, the exception it raised ("none" when it returned),
\* the registry entry parseOptions failed at, and the state before the call.
CallRecord(op, option, raised, fail_at) ==
    [op |-> op, option |-> option, raised |-> raised, fail_at |-> fail_at,
     pre |-> options, pre_longest_value |-> longest_value]

\* The state after an add* call that ended with registry result r.
Registered(op, option, r) ==
    /\ options' = r.options
    /\ longest_short_option' = r.longest_short_option
    /\ longest_long_option' = r.longest_long_option
    /\ longest_value' = r.longest_value
    /\ registered' = IF r.raised = "none" THEN Append(registered, option) ELSE registered
    /\ call' = CallRecord(op, option, r.raised, 0)
    /\ UNCHANGED <<tokens, option_parsed, parse_calls>>

\* The state after an add* call that raised before reaching the registry.
Rejected(op, option, raised) ==
    /\ call' = CallRecord(op, option, raised, 0)
    /\ UNCHANGED <<tokens, options, longest_short_option, longest_long_option,
                   longest_value, option_parsed, registered, parse_calls>>

\* Parser::addOption (both overloads: the default value is already a string).
addOption(s, l, required, value) ==
    IF ~Option_ctor_ok(s, l)
    THEN Rejected("addOption", ValueOption(s, l, required, value), "std::invalid_argument")
    ELSE Registered("addOption", ValueOption(s, l, required, value),
                    OptionList_addOption(Registry, ValueOption(s, l, required, value)))

\* Parser::addToggle.
addToggle(s, l, toggled) ==
    IF ~Option_ctor_ok(s, l)
    THEN Rejected("addToggle", ToggleOption(s, l, toggled), "std::invalid_argument")
    ELSE Registered("addToggle", ToggleOption(s, l, toggled),
                    OptionList_addOption(Registry, ToggleOption(s, l, toggled)))

\* Parser::addMultiOption: the MultiOption constructor checks the default.
addMultiOption(s, l, allowed_values, value) ==
    IF ~Option_ctor_ok(s, l) \/ ~isValueAllowed(allowed_values, value)
    THEN Rejected("addMultiOption", MultiOption(s, l, allowed_values, value),
                  "std::invalid_argument")
    ELSE Registered("addMultiOption", MultiOption(s, l, allowed_values, value),
                    OptionList_addOption(Registry, MultiOption(s, l, allowed_values, value)))

\* Parser::addPositionalOption.
addPositionalOption(s, l, required, value) ==
    IF HasPositionalList(options)
    THEN Rejected("addPositionalOption", PositionalOption(s, l, required, value),
                  "std::runtime_error")
    ELSE IF ~Option_ctor_ok(s, l)
    THEN Rejected("addPositionalOption", PositionalOption(s, l, required, value),
                  "std::invalid_argument")
    ELSE Registered("addPositionalOption", PositionalOption(s, l, required, value),
                    OptionList_addOption(Registry, PositionalOption(s, l, required, value)))

\* Parser::addPositionalList.
addPositionalList(s, l, required) ==
    IF HasPositionalList(options)
    THEN Rejected("addPositionalList", PositionalList(s, l, required), "std::runtime_error")
    ELSE IF ~Option_ctor_ok(s, l)
    THEN Rejected("addPositionalList", PositionalList(s, l, required),
                  "std::invalid_argument")
    ELSE Registered("addPositionalList", PositionalList(s, l, required),
                    OptionList_addOption(Registry, PositionalList(s, l, required)))

\* Parser::addSeparator.
addSeparator ==
    Registered("addSeparator", Separator, OptionList_addOption(Registry, Separator))

-----------------------------------------------------------------------------
(* parser.hpp: parsing *)

\* Parser::isToggle over the toggles getToggleOptions collects from opts.
isToggle(opts, option) ==
    \E i \in 1..Len(opts) :
        /\ opts[i].kind = "ToggleOption"
        /\ (option = opts[i].opt_short \/ option = opts[i].opt_long)

\* Positional tests without the exemption for the names of toggles.
PassesPositionalTests_NoToggles(toks, opts, it) ==
    /\ ~isOption(toks[it])
    /\ ~isOption(toks[it - 1])

\* The two tests of the loops of parsePositionalOption / parsePositionalList
\* that let token it through (prev is the token before it).
PassesPositionalTests(toks, opts, it) ==
    /\ ~isOption(toks[it])
    /\ ~(isOption(toks[it - 1]) /\ ~isToggle(opts, toks[it - 1]))

\* OptionList::updateLongestValue.
updateLongestValue(length, longest) == Max(length, longest)

\* A parseValueOption that throws ParsingError when a required option has
\* no value in the arguments.
parseValueOption_Eager(st, toks, i) ==
    LET option   == st.options[i]
        by_short == Tokenizer_getOption(toks, option.opt_short)
        value    == IF by_short = <<>>
                    THEN Tokenizer_getOption(toks, option.opt_long)
                    ELSE by_short
    IN  IF value = <<>>
        THEN IF option.required
             THEN [st EXCEPT !.raised = "ParsingError", !.fail_at = i]
             ELSE st
        ELSE [st EXCEPT !.options[i].value = value,
                        !.longest_value = updateLongestValue(Len(value), @)]

\* A parseValueOption that looks the long name up first.
parseValueOption_LongFirst(st, toks, i) ==
    LET option  == st.options[i]
        by_long == Tokenizer_getOption(toks, option.opt_long)
        value   == IF by_long = <<>>
                   THEN Tokenizer_getOption(toks, option.opt_short)
                   ELSE by_long
    IN  IF value = <<>> THEN st
        ELSE [st EXCEPT !.options[i].value = value,
                        !.longest_value = updateLongestValue(Len(value), @)]

\* A parseValueOption that stores what the lookups gave even when it is empty.
parseValueOption_StoreEmpty(st, toks, i) ==
    LET option   == st.options[i]
        by_short == Tokenizer_getOption(toks, option.opt_short)
        value    == IF by_short = <<>>
                    THEN Tokenizer_getOption(toks, option.opt_long)
                    ELSE by_short
    IN  [st EXCEPT !.options[i].value = value,
                   !.longest_value = updateLongestValue(Len(value), @)]

\* Parser::parseValueOption on entry i of parse state st.
parseValueOption(st, toks, i) ==
    LET option   == st.options[i]
        by_short == Tokenizer_getOption(toks, option.opt_short)
        value    == IF by_short = <<>>
                    THEN Tokenizer_getOption(toks, option.opt_long)
                    ELSE by_short
    IN  IF value = <<>> THEN st
        ELSE [st EXCEPT !.options[i].value = value,
                        !.longest_value = updateLongestValue(Len(value), @)]

\* A setValue that stores the value before it checks it.
setValue_StoreFirst(option, value) ==
    [option |-> [option EXCEPT !.selected_value = value],
     raised |-> ~isValueAllowed(option.allowed_values, value)]

\* MultiOption::setValue: the value is stored only when it is allowed;
\* raised tells whether std::invalid_argument was thrown.
setValue(option, value) ==
    IF ~isValueAllowed(option.allowed_values, value)
    THEN [option |-> option, raised |-> TRUE]
    ELSE [option |-> [option EXCEPT !.selected_value = value], raised |-> FALSE]

\* A parseMultiOption that drops a value that is not allowed without raising.
parseMultiOption_Silent(st, toks, i) ==
    LET option   == st.options[i]
        by_short == Tokenizer_getOption(toks, option.opt_short)
        value    == IF by_short = <<>>
                    THEN Tokenizer_getOption(toks, option.opt_long)
                    ELSE by_short
    IN  IF value = <<>> \/ ~isValueAllowed(option.allowed_values, value) THEN st
        ELSE [st EXCEPT !.options[i].selected_value = value,
                        !.longest_value = updateLongestValue(Len(value), @)]

\* Parser::parseMultiOption on entry i of parse state st.
parseMultiOption(st, toks, i) ==
    LET option   == st.options[i]
        by_short == Tokenizer_getOption(toks, option.opt_short)
        value    == IF by_short = <<>>
                    THEN Tokenizer_getOption(toks, option.opt_long)
                    ELSE by_short
        set      == setValue(option, value)
    IN  IF value = <<>> THEN st
        ELSE IF set.raised
        THEN [st EXCEPT !.options[i] = set.option,
                        !.raised = "std::invalid_argument", !.fail_at = i]
        ELSE [st EXCEPT !.options[i] = set.option,
                        !.longest_value =
                            updateLongestValue(Len(set.option.selected_value), @)]

\* A parseToggleOption that looks for the short name only.
parseToggleOption_ShortOnly(st, toks, i) ==
    LET option == st.options[i]
    IN  IF Tokenizer_hasOption(toks, option.opt_short)
        THEN [st EXCEPT !.options[i].toggled = TRUE]
        ELSE st

\* A parseToggleOption that writes the string "true" into the value field.
parseToggleOption_StoreValue(st, toks, i) ==
    LET option == st.options[i]
    IN  IF Tokenizer_hasOption(toks, option.opt_short)
           \/ Tokenizer_hasOption(toks, option.opt_long)
        THEN [st EXCEPT !.options[i].toggled = TRUE,
                        !.options[i].value = <<"t", "r", "u", "e">>]
        ELSE st

\* Parser::parseToggleOption on entry i of parse state st.
parseToggleOption(st, toks, i) ==
    LET option == st.options[i]
    IN  IF Tokenizer_hasOption(toks, option.opt_short)
           \/ Tokenizer_hasOption(toks, option.opt_long)
        THEN [st EXCEPT !.options[i].toggled = TRUE]
        ELSE st

\* The loop of Parser::parsePositionalOption from token it on: the index of
\* the token assigned to the option, 0 when the loop ends without one.
RECURSIVE positionalOptionLoop(_, _, _, _, _)
positionalOptionLoop(toks, opts, it, arg_index, pos_arg_index) ==
    IF it > Len(toks) THEN 0
    ELSE IF ~PassesPositionalTests(toks, opts, it)
    THEN positionalOptionLoop(toks, opts, it + 1, arg_index, pos_arg_index)
    ELSE IF arg_index = pos_arg_index THEN it
    ELSE positionalOptionLoop(toks, opts, it + 1, arg_index + 1, pos_arg_index)

\* A parsePositionalOption that leaves the positional cursor where it was.
parsePositionalOption_NoAdvance(st, toks, i) ==
    LET it == positionalOptionLoop(toks, st.options, 2, 0, st.pos_arg_index)
    IN  IF it = 0 THEN st
        ELSE [st EXCEPT !.options[i].value = toks[it],
                        !.longest_value = updateLongestValue(Len(toks[it]), @)]

\* Parser::parsePositionalOption on entry i of parse state st.
parsePositionalOption(st, toks, i) ==
    LET it == positionalOptionLoop(toks, st.options, 2, 0, st.pos_arg_index)
    IN  IF it = 0 THEN st
        ELSE [st EXCEPT !.options[i].value = toks[it],
                        !.pos_arg_index = @ + 1,
                        !.longest_value = updateLongestValue(Len(toks[it]), @)]

\* The loop of Parser::parsePositionalList from token it on, on the list
\* option's values, the cursor and the longest value.
RECURSIVE positionalListLoop(_, _, _, _, _)
positionalListLoop(toks, opts, it, arg_index, acc) ==
    IF it > Len(toks) THEN acc
    ELSE IF ~PassesPositionalTests(toks, opts, it)
    THEN positionalListLoop(toks, opts, it + 1, arg_index, acc)
    ELSE IF arg_index >= acc.pos_arg_index
    THEN positionalListLoop(toks, opts, it + 1, arg_index + 1,
            [values        |-> Append(acc.values, toks[it]),
             pos_arg_index |-> acc.pos_arg_index + 1,
             longest_value |-> updateLongestValue(
                                   print_values_length(Append(acc.values, toks[it])),
                                   acc.longest_value)])
    ELSE positionalListLoop(toks, opts, it + 1, arg_index + 1, acc)

\* A parsePositionalList that empties the list before it fills it.
parsePositionalList_Fresh(st, toks, i) ==
    LET acc == positionalListLoop(toks, st.options, 2, 0,
                   [values        |-> <<>>,
                    pos_arg_index |-> st.pos_arg_index,
                    longest_value |-> st.longest_value])
    IN  [st EXCEPT !.options[i].values = acc.values,
                   !.pos_arg_index = acc.pos_arg_index,
                   !.longest_value = acc.longest_value]

\* Parser::parsePositionalList on entry i of parse state st.
parsePositionalList(st, toks, i) ==
    LET acc == positionalListLoop(toks, st.options, 2, 0,
                   [values        |-> st.options[i].values,
                    pos_arg_index |-> st.pos_arg_index,
                    longest_value |-> st.longest_value])
    IN  [st EXCEPT !.options[i].values = acc.values,
                   !.pos_arg_index = acc.pos_arg_index,
                   !.longest_value = acc.longest_value]

\* The dispatch of the loop body of Parser::parseOptions on entry i.
parseOne(st, toks, i) ==
    CASE st.options[i].kind = "ValueOption"      -> parseValueOption(st, toks, i)
      [] st.options[i].kind = "MultiOption"      -> parseMultiOption(st, toks, i)
      [] st.options[i].kind = "ToggleOption"     -> parseToggleOption(st, toks, i)
      [] st.options[i].kind = "PositionalOption" -> parsePositionalOption(st, toks, i)
      [] st.options[i].kind = "PositionalList"   -> parsePositionalList(st, toks, i)
      [] OTHER                                   -> st

\* A loop that visits the entries after the one that raised as well.
RECURSIVE parseLoop_KeepGoing(_, _, _)
parseLoop_KeepGoing(st, toks, i) ==
    IF i > Len(st.options) THEN st
    ELSE parseLoop_KeepGoing(
             [parseOne(st, toks, i) EXCEPT
                  !.raised  = IF st.raised # "none" THEN st.raised ELSE @,
                  !.fail_at = IF st.raised # "none" THEN st.fail_at ELSE @],
             toks, i + 1)

\* The loop of Parser::parseOptions from entry i on; an exception ends it.
RECURSIVE parseLoop(_, _, _)
parseLoop(st, toks, i) ==
    IF i > Len(st.options) \/ st.raised # "none" THEN st
    ELSE parseLoop(parseOne(st, toks, i), toks, i + 1)

\* The result of Parser::parseOptions on the current state.
parseResult ==
    parseLoop([options |-> options, longest_value |-> longest_value,
               pos_arg_index |-> 0, raised |-> "none", fail_at |-> 0], tokens, 1)

\* Parser::parseOptions.
parseOptions ==
    /\ parse_calls < MaxParses
    /\ options' = parseResult.options
    /\ longest_value' = parseResult.longest_value
    /\ option_parsed' = IF parseResult.raised = "none" THEN TRUE ELSE option_parsed
    /\ call' = CallRecord("parseOptions", NoOption, parseResult.raised, parseResult.fail_at)
    /\ parse_calls' = parse_calls + 1
    /\ UNCHANGED <<tokens, longest_short_option, longest_long_option, registered>>

\* The test of Parser::validateOptions on one entry: it is required and
\* holds an empty value (an empty list for a PositionalList).
isMissing(o) ==
    CASE o.kind = "ValueOption"      -> o.required /\ o.value = <<>>
      [] o.kind = "PositionalOption" -> o.required /\ o.value = <<>>
      [] o.kind = "PositionalList"   -> o.required /\ o.values = <<>>
      [] OTHER                       -> FALSE

\* The loop of Parser::validateOptions from entry i on: the entry it throws
\* at, 0 when it reaches the end.
RECURSIVE validateFrom(_, _)
validateFrom(opts, i) ==
    IF i > Len(opts) THEN 0
    ELSE IF isMissing(opts[i]) THEN i
    ELSE validateFrom(opts, i + 1)

\* Parser::validateOptions: const, it returns or throws ParsingError naming
\* the first entry its test finds.
validateOptions ==
    /\ call' = CallRecord("validateOptions", NoOption,
                          IF validateFrom(options, 1) = 0 THEN "none" ELSE "ParsingError",
                          validateFrom(options, 1))
    /\ UNCHANGED <<tokens, options, longest_short_option, longest_long_option,
                   longest_value, option_parsed, registered, parse_calls>>

\* The record of a getOption<T> call kept in the history variable: the
\* type asked for, the name, what was thrown and what was returned.
QueryRecord(type, name, result) ==
    [op |-> "getOption", type |-> type, name |-> name, option |-> NoOption,
     raised |-> result.raised, data |-> result.data, fail_at |-> 0,
     pre |-> options, pre_longest_value |-> longest_value]

\* Parser::getOption<T>: const, it hands the name to OptionList::getOption<T>.
getOption(type, name) ==
    /\ call' = QueryRecord(type, name,
                   CASE type = "string" -> getOption_string(options, name)
                     [] type = "int"    -> getOption_int(options, name)
                     [] type = "bool"   -> getOption_bool(options, name)
                     [] type = "list"   -> getOption_list(options, name))
    /\ UNCHANGED <<tokens, options, longest_short_option, longest_long_option,
                   longest_value, option_parsed, registered, parse_calls>>

\* Tokenizer::isOption called on the token at position i of the vector: the
\* history variable keeps the token and the answer.
Tokenizer_isOption(i) ==
    /\ call' = [op |-> "isOption", token |-> tokens[i], data |-> isOption(tokens[i]),
                option |-> NoOption, raised |-> "none", fail_at |-> 0,
                pre |-> options, pre_longest_value |-> longest_value]
    /\ UNCHANGED <<tokens, options, longest_short_option, longest_long_option,
                   longest_value, option_parsed, registered, parse_calls>>

-----------------------------------------------------------------------------
(* Construction. *)

NoCall == [op |-> "Parser", option |-> NoOption, raised |-> "none", fail_at |-> 0,
           pre |-> <<>>, pre_longest_value |-> 0]

\* Parser::Parser over one of the argument vectors argvs.
Constructed(argvs) ==
    /\ tokens \in argvs
    /\ options = <<>>
    /\ longest_short_option = 0
    /\ longest_long_option = 0
    /\ longest_value = 0
    /\ option_parsed = FALSE
    /\ registered = <<>>
    /\ call = NoCall
    /\ parse_calls = 0

-----------------------------------------------------------------------------
(* Argument vectors. *)

\* The argument vectors made of the program name and at most n of args.
RECURSIVE ArgVectors(_, _, _)
ArgVectors(prog, args, n) ==
    IF n = 0 THEN {<<prog>>}
    ELSE ArgVectors(prog, args, n - 1) \cup
         {Append(v, a) : v \in {w \in ArgVectors(prog, args, n - 1) : Len(w) = n},
                         a \in args}

Prog == <<"p", "r", "o", "g">>

-----------------------------------------------------------------------------
(* Scenario: registration.  Every add* call, over names that are empty,   *)
(* well formed, malformed, and a short name that starts with "--".        *)

RegShorts == {<<>>, <<"-", "a">>, <<"-", "-", "x">>}
RegLongs == {<<>>, <<"-", "-", "x">>, <<"-", "-", "y">>}
BadShort == <<"a">>
BadLong == <<"-", "y">>
RegAllowed == <<<<"u">>, <<"w">>>>
RegDefaults == {<<"u">>, <<"z">>}

InitRegistry == Constructed({<<Prog>>})

RegAddOption ==
    /\ \E s \in RegShorts \cup {BadShort}, l \in RegLongs \cup {BadLong} :
            addOption(s, l, FALSE, <<"v">>)
    /\ Len(options') <= MaxOptions

RegAddToggle ==
    /\ \E l \in RegLongs : addToggle(<<"-", "a">>, l, FALSE)
    /\ Len(options') <= MaxOptions

RegAddMultiOption ==
    /\ \E s \in RegShorts \ {<<>>}, d \in RegDefaults :
            addMultiOption(s, <<"-", "-", "y">>, RegAllowed, d)
    /\ Len(options') <= MaxOptions

RegAddPositionalOption ==
    /\ \E l \in RegLongs : addPositionalOption(<<>>, l, FALSE, <<>>)
    /\ Len(options') <= MaxOptions

RegAddPositionalList ==
    /\ \E s \in RegShorts : addPositionalList(s, <<>>, FALSE)
    /\ Len(options') <= MaxOptions

RegAddSeparator ==
    /\ addSeparator
    /\ Len(options') <= MaxOptions

NextRegistry ==
    \/ RegAddOption
    \/ RegAddToggle
    \/ RegAddMultiOption
    \/ RegAddPositionalOption
    \/ RegAddPositionalList
    \/ RegAddSeparator

SpecRegistry == InitRegistry /\ [][NextRegistry]_vars

-----------------------------------------------------------------------------
(* Scenario: MultiOptions.  Two MultiOptions, registered with an allowed   *)
(* or a refused default, parsed against argument vectors that name them    *)
(* in the plain and in the compact forms with allowed and other values;    *)
(* registrations and parseOptions calls interleave freely.                 *)

MultiNames == {<< <<"-", "m">>, <<"-", "-", "m">> >>, << <<"-", "c">>, <<"-", "-", "c">> >>}
\* Allowed values and default: an allowed default, a default that is not
\* allowed, and no allowed value at all.
MultiConfigs == {<< << <<"u">>, <<"w">> >>, <<"u">> >>,
                 << << <<"u">>, <<"w">> >>, <<"z">> >>,
                 << <<>>, <<"u">> >>}
MultiArgs == {<<"-", "m">>, <<"-", "-", "m">>, <<"w">>, <<"z">>,
              <<"-", "m", "w">>, <<"-", "-", "c", "=", "w">>}

InitMulti == Constructed(ArgVectors(Prog, MultiArgs, MaxArgs))

MultiAddMultiOption ==
    /\ \E n \in MultiNames, c \in MultiConfigs : addMultiOption(n[1], n[2], c[1], c[2])
    /\ Len(options') <= MaxOptions

MultiParseOptions == parseOptions

NextMulti ==
    \/ MultiAddMultiOption
    \/ MultiParseOptions

SpecMulti == InitMulti /\ [][NextMulti]_vars

-----------------------------------------------------------------------------
(* Scenario: positional arguments.  Two PositionalOptions, a               *)
(* PositionalList and a toggle are registered, in any order the parser     *)
(* accepts, before the first parseOptions call; the vectors hold plain     *)
(* tokens, a signed number, the toggle's short name and the name of an     *)
(* option that is no toggle.                                               *)

PosArgs == {<<"a">>, <<"b">>, <<"-", "5">>, <<"-", "t">>, <<"-", "o">>}

InitPositional == Constructed(ArgVectors(Prog, PosArgs, MaxPosArgs))

\* The registration phase: nothing was parsed yet and the call is accepted.
Registering ==
    /\ parse_calls = 0
    /\ call'.raised = "none"
    /\ Len(options') <= MaxOptions

PosAddPositionalOption ==
    /\ \/ addPositionalOption(<<"-", "p">>, <<"-", "-", "p">>, FALSE, <<"d">>)
       \/ addPositionalOption(<<"-", "q">>, <<"-", "-", "q">>, TRUE, <<>>)
    /\ Registering

PosAddPositionalList ==
    /\ addPositionalList(<<"-", "l">>, <<"-", "-", "l">>, FALSE)
    /\ Registering

PosAddToggle ==
    /\ addToggle(<<"-", "t">>, <<"-", "-", "t">>, FALSE)
    /\ Registering

PosParseOptions == parseOptions

NextPositional ==
    \/ PosAddPositionalOption
    \/ PosAddPositionalList
    \/ PosAddToggle
    \/ PosParseOptions

SpecPositional == InitPositional /\ [][NextPositional]_vars

-----------------------------------------------------------------------------
(* Scenario: toggles.  Toggles registered off and on, one of them without  *)
(* a long name, and a MultiOption whose value in the arguments is refused, *)
(* registered before the first parseOptions call; the vectors hold the     *)
(* toggles' names, a token that only starts with one, the empty token and  *)
(* the refused value.                                                      *)

ToggleArgs == {<<"-", "t">>, <<"-", "-", "t">>, <<"-", "u">>, <<"-", "t", "x">>, <<>>,
               <<"-", "-", "m", "=", "z">>}

InitToggle == Constructed(ArgVectors(Prog, ToggleArgs, MaxArgs))

TogAddToggle ==
    /\ \/ \E toggled \in BOOLEAN : addToggle(<<"-", "t">>, <<"-", "-", "t">>, toggled)
       \/ addToggle(<<"-", "u">>, <<>>, FALSE)
    /\ Registering

TogAddMultiOption ==
    /\ addMultiOption(<<"-", "m">>, <<"-", "-", "m">>, << <<"u">>, <<"w">> >>, <<"u">>)
    /\ Registering

TogParseOptions == parseOptions

NextToggle ==
    \/ TogAddToggle
    \/ TogAddMultiOption
    \/ TogParseOptions

SpecToggle == InitToggle /\ [][NextToggle]_vars

-----------------------------------------------------------------------------
(* Scenario: value options.  A ValueOption, optional or required, a second *)
(* one and a toggle are registered before the first parseOptions call; the *)
(* vectors hold the first option's names alone and in compact form, signed *)
(* numbers, a plain word and the toggle's short name.                      *)

ValueArgs == {<<"-", "i">>, <<"-", "-", "i", "n", "t">>, <<"-", "4", "2">>,
              <<"-", "3", ".", "1", "4">>, <<"x">>, <<"-", "v">>,
              <<"-", "-", "i", "n", "t", "=", "5">>, <<"-", "i", "9">>}

InitValue == Constructed(ArgVectors(Prog, ValueArgs, MaxArgs))

ValAddOption ==
    /\ \/ \E required \in BOOLEAN :
              addOption(<<"-", "i">>, <<"-", "-", "i", "n", "t">>, required, <<"7">>)
       \/ addOption(<<"-", "s">>, <<"-", "-", "s", "t", "r">>, FALSE, <<"d">>)
    /\ Registering

ValAddToggle ==
    /\ addToggle(<<"-", "v">>, <<"-", "-", "v">>, FALSE)
    /\ Registering

ValParseOptions == parseOptions

NextValue ==
    \/ ValAddOption
    \/ ValAddToggle
    \/ ValParseOptions

SpecValue == InitValue /\ [][NextValue]_vars

-----------------------------------------------------------------------------
(* Scenario: required options.  Required ValueOptions without and with a   *)
(* default, an optional one, a required PositionalOption and a required    *)
(* PositionalList are registered before the first parseOptions call;       *)
(* validateOptions is called at any time.  The vectors hold names of the   *)
(* value options, alone and in compact form, and a plain word.             *)

RequiredArgs == {<<"-", "r">>, <<"-", "d">>, <<"x">>, <<"-", "-", "r", "e", "q", "=", "y">>}

InitRequired == Constructed(ArgVectors(Prog, RequiredArgs, MaxArgs))

ReqAddOption ==
    /\ \/ addOption(<<"-", "r">>, <<"-", "-", "r", "e", "q">>, TRUE, <<>>)
       \/ addOption(<<"-", "d">>, <<"-", "-", "d", "e", "f">>, TRUE, <<"7">>)
       \/ addOption(<<"-", "o">>, <<"-", "-", "o", "p", "t">>, FALSE, <<>>)
    /\ Registering

ReqAddPositionalOption ==
    /\ addPositionalOption(<<"-", "p">>, <<"-", "-", "p", "o", "s">>, TRUE, <<>>)
    /\ Registering

ReqAddPositionalList ==
    /\ addPositionalList(<<"-", "l">>, <<"-", "-", "l", "i", "s", "t">>, TRUE)
    /\ Registering

ReqParseOptions == parseOptions

ReqValidateOptions == validateOptions

NextRequired ==
    \/ ReqAddOption
    \/ ReqAddPositionalOption
    \/ ReqAddPositionalList
    \/ ReqParseOptions
    \/ ReqValidateOptions

SpecRequired == InitRequired /\ [][NextRequired]_vars

-----------------------------------------------------------------------------
(* Scenario: retrieval.  A program registers, in this order, a ValueOption *)
(* (with a default that is or is not a number or a boolean), a toggle, a   *)
(* MultiOption, a PositionalOption, a PositionalList and a separator, and  *)
(* then parses; getOption<T> is called at any time, before the             *)
(* registrations are complete, before and after parsing, for each type and *)
(* with a name of each entry (the empty string is the separator's name)    *)
(* and a name that is never registered.  The vectors hold the value        *)
(* option's name, a string with trailing characters and the toggle's name; *)
(* the number among the defaults is written after a vertical tab.          *)

QueryArgs == {<<"-", "n">>, <<"1", "2", "x">>, <<"-", "t">>}

QueryDefaults == {<<>>, <<"", "7">>, <<"t", "r", "u", "e">>, <<"f", "a", "l", "s", "e">>,
                  <<"T", "r", "u", "e">>}

QueryNames == {<<"-", "n">>, <<"-", "-", "t", "o", "g">>, <<"-", "m">>,
               <<"-", "-", "p", "o", "s">>, <<"-", "l">>, <<>>,
               <<"-", "-", "n", "o", "p", "e">>}

QueryTypes == {"string", "int", "bool", "list"}

\* The entries registered so far, in the program's order.
QueryKinds == <<"ValueOption", "ToggleOption", "MultiOption", "PositionalOption",
                "PositionalList", "Separator">>

\* The program has registered its first k entries and has not parsed yet.
QueryStep(k) == Len(options) = k /\ parse_calls = 0

InitQuery == Constructed(ArgVectors(Prog, QueryArgs, MaxArgs))

QryAddOption ==
    /\ QueryStep(0)
    /\ \E value \in QueryDefaults :
           addOption(<<"-", "n">>, <<"-", "-", "n", "u", "m">>, FALSE, value)

QryAddToggle ==
    /\ QueryStep(1)
    /\ addToggle(<<"-", "t">>, <<"-", "-", "t", "o", "g">>, FALSE)

QryAddMultiOption ==
    /\ QueryStep(2)
    /\ addMultiOption(<<"-", "m">>, <<"-", "-", "m", "o", "d", "e">>,
                      << <<"t", "r", "u", "e">>, <<"f", "a", "l", "s", "e">> >>,
                      <<"t", "r", "u", "e">>)

QryAddPositionalOption ==
    /\ QueryStep(3)
    /\ addPositionalOption(<<"-", "p">>, <<"-", "-", "p", "o", "s">>, FALSE,
                           <<"t", "r", "u", "e">>)

QryAddPositionalList ==
    /\ QueryStep(4)
    /\ addPositionalList(<<"-", "l">>, <<"-", "-", "l", "i", "s", "t">>, FALSE)

QryAddSeparator ==
    /\ QueryStep(5)
    /\ addSeparator

QryParseOptions ==
    /\ Len(options) = Len(QueryKinds)
    /\ parseOptions

QryGetOption == \E type \in QueryTypes, name \in QueryNames : getOption(type, name)

NextQuery ==
    \/ QryAddOption
    \/ QryAddToggle
    \/ QryAddMultiOption
    \/ QryAddPositionalOption
    \/ QryAddPositionalList
    \/ QryAddSeparator
    \/ QryParseOptions
    \/ QryGetOption

SpecQuery == InitQuery /\ [][NextQuery]_vars

-----------------------------------------------------------------------------
(* Scenario: token classification.  The vectors are drawn from signed      *)
(* numbers, dash-led tokens built from the characters - . e E and digits,  *)
(* a token with an inner dash and an ordinary option name; isOption is     *)
(* applied to any token after the program name.                            *)

ClassifyArgs == {<<"-", "4", "2">>, <<"-", "3", ".", "1", "4">>, <<"-", "1", "e", "5">>,
                 <<"-">>, <<"-", "-">>, <<"-", "e">>, <<"-", "E">>, <<"-", ".">>,
                 <<"1", "-", "2">>, <<"-", "v">>}

InitClassify == Constructed(ArgVectors(Prog, ClassifyArgs, MaxArgs))

ClsIsOption == \E i \in 2..Len(tokens) : Tokenizer_isOption(i)

NextClassify == ClsIsOption

SpecClassify == InitClassify /\ [][NextClassify]_vars

-----------------------------------------------------------------------------
(* Scenario: lookup.  A program registers a ValueOption, a toggle, a       *)
(* MultiOption and a PositionalList, in this order, and parses.  The       *)
(* vectors hold the short and long names of the ValueOption and of the     *)
(* MultiOption in the plain and in the compact forms, two values, the      *)
(* toggle's name and the name of an option that is not registered.         *)

LookupArgs == {<<"-", "o">>, <<"-", "-", "o", "u", "t">>,
               <<"-", "-", "o", "u", "t", "=", "v">>, <<"-", "o", "w">>,
               <<"v">>, <<"w">>, <<"-", "t">>, <<"-", "z">>,
               <<"-", "m">>, <<"-", "-", "m", "o", "d", "e", "=", "w">>}

InitLookup == Constructed(ArgVectors(Prog, LookupArgs, MaxArgs))

LkpAddOption ==
    /\ QueryStep(0)
    /\ addOption(<<"-", "o">>, <<"-", "-", "o", "u", "t">>, FALSE, <<"d">>)

LkpAddToggle ==
    /\ QueryStep(1)
    /\ addToggle(<<"-", "t">>, <<"-", "-", "t", "o", "g">>, FALSE)

LkpAddMultiOption ==
    /\ QueryStep(2)
    /\ addMultiOption(<<"-", "m">>, <<"-", "-", "m", "o", "d", "e">>,
                      << <<"d">>, <<"v">>, <<"w">> >>, <<"d">>)

LkpAddPositionalList ==
    /\ QueryStep(3)
    /\ addPositionalList(<<"-", "l">>, <<"-", "-", "l", "i", "s", "t">>, FALSE)

LkpParseOptions ==
    /\ Len(options) = 4
    /\ parseOptions

NextLookup ==
    \/ LkpAddOption
    \/ LkpAddToggle
    \/ LkpAddMultiOption
    \/ LkpAddPositionalList
    \/ LkpParseOptions

SpecLookup == InitLookup /\ [][NextLookup]_vars

-----------------------------------------------------------------------------
(* Scenario: compact forms.  A program registers two ValueOptions, one     *)
(* with a short name of two characters and an ordinary long name, one with *)
(* a short name of three characters and the shortest long name the Option  *)
(* constructor accepts, "--", and parses.  The vectors hold the long name  *)
(* with "=" (and a second "=" in the value) and without it, the short      *)
(* names with a value appended, tokens that start with "--", and a value.  *)

CompactArgs == {<<"-", "-", "n", "a", "m", "e", "=", "v", "=", "w">>,
                <<"-", "-", "n", "a", "m", "e", "v">>,
                <<"-", "-", "n", "a", "m", "e">>,
                <<"-", "x", "v">>, <<"-", "a", "b", "v">>,
                <<"-", "-", "v">>, <<"-", "-", "=", "v">>, <<"v">>}

InitCompact == Constructed(ArgVectors(Prog, CompactArgs, MaxArgs))

CmpAddOption ==
    /\ \/ /\ QueryStep(0)
          /\ addOption(<<"-", "x">>, <<"-", "-", "n", "a", "m", "e">>, FALSE, <<"d">>)
       \/ /\ QueryStep(1)
          /\ addOption(<<"-", "a", "b">>, <<"-", "-">>, FALSE, <<"d">>)

CmpParseOptions ==
    /\ Len(options) = 2
    /\ parseOptions

NextCompact ==
    \/ CmpAddOption
    \/ CmpParseOptions

SpecCompact == InitCompact /\ [][NextCompact]_vars

-----------------------------------------------------------------------------
(* Scenario: program name.  The first element of the vector is a plain     *)
(* word, a dash-led word such as a login shell's "-sh", the toggle's name, *)
(* the ValueOption's name or a compact form of it.  The program registers  *)
(* a ValueOption, a toggle, a PositionalOption and a PositionalList, in    *)
(* this order, and parses.                                                 *)

ProgramNames == {Prog, <<"-", "s", "h">>, <<"-", "t">>, <<"-", "o">>, <<"-", "o", "a">>}

ProgramArgs == {<<"a">>, <<"b">>, <<"-", "o">>, <<"-", "t">>}

InitProgram ==
    Constructed(UNION {ArgVectors(name, ProgramArgs, MaxArgs) : name \in ProgramNames})

PrgAddOption ==
    /\ QueryStep(0)
    /\ addOption(<<"-", "o">>, <<"-", "-", "o", "u", "t">>, FALSE, <<"d">>)

PrgAddToggle ==
    /\ QueryStep(1)
    /\ addToggle(<<"-", "t">>, <<"-", "-", "t", "o", "g">>, FALSE)

PrgAddPositionalOption ==
    /\ QueryStep(2)
    /\ addPositionalOption(<<"-", "p">>, <<"-", "-", "p", "o", "s">>, FALSE, <<"d">>)

PrgAddPositionalList ==
    /\ QueryStep(3)
    /\ addPositionalList(<<"-", "l">>, <<"-", "-", "l", "i", "s", "t">>, FALSE)

PrgParseOptions ==
    /\ Len(options) = 4
    /\ parseOptions

NextProgram ==
    \/ PrgAddOption
    \/ PrgAddToggle
    \/ PrgAddPositionalOption
    \/ PrgAddPositionalList
    \/ PrgParseOptions

SpecProgram == InitProgram /\ [][NextProgram]_vars

-----------------------------------------------------------------------------
(* Scenario: option names as tokens.  A program registers a ValueOption    *)
(* -i, a toggle -e, a toggle -ix and a PositionalList, in this order, and  *)
(* parses vectors made of these names and a value.                         *)

IsolationArgs == {<<"-", "i">>, <<"-", "e">>, <<"-", "i", "x">>, <<"v">>}

InitIsolation == Constructed(ArgVectors(Prog, IsolationArgs, MaxArgs))

IsoAddOption ==
    /\ QueryStep(0)
    /\ addOption(<<"-", "i">>, <<"-", "-", "i", "n", "t">>, FALSE, <<"d">>)

IsoAddToggle ==
    /\ \/ /\ QueryStep(1)
          /\ addToggle(<<"-", "e">>, <<"-", "-", "e", "x", "p">>, FALSE)
       \/ /\ QueryStep(2)
          /\ addToggle(<<"-", "i", "x">>, <<"-", "-", "i", "n", "d", "e", "x">>, FALSE)

IsoAddPositionalList ==
    /\ QueryStep(3)
    /\ addPositionalList(<<"-", "l">>, <<"-", "-", "l", "i", "s", "t">>, FALSE)

IsoParseOptions ==
    /\ Len(options) = 4
    /\ parseOptions

NextIsolation ==
    \/ IsoAddOption
    \/ IsoAddToggle
    \/ IsoAddPositionalList
    \/ IsoParseOptions

SpecIsolation == InitIsolation /\ [][NextIsolation]_vars

-----------------------------------------------------------------------------
(* Registration claims. *)

AddCalls == {"addOption", "addToggle", "addMultiOption", "addPositionalOption",
             "addPositionalList"}

\* The option of the last call has a short or a long name in common with
\* a non-separator entry of the registry the call started from.
SharesNameWithRegistered ==
    \E i \in 1..Len(call.pre) :
        /\ call.pre[i].kind # "Separator"
        /\ \/ call.pre[i].opt_short = call.option.opt_short
           \/ call.pre[i].opt_long = call.option.opt_long

\* The last call passed every check that comes before the duplicate test:
\* the names are well formed, a MultiOption's default is allowed, and no
\* PositionalList blocks a positional registration.
PassesEarlierChecks ==
    /\ Option_ctor_ok(call.option.opt_short, call.option.opt_long)
    /\ call.option.kind = "MultiOption" =>
           call.option.selected_value \in
               {call.option.allowed_values[i] : i \in 1..Len(call.option.allowed_values)}
    /\ call.option.kind \in {"PositionalOption", "PositionalList"} =>
           \A i \in 1..Len(call.pre) : call.pre[i].kind # "PositionalList"

\* C7 as stated: an add* call other than addSeparator whose option shares a
\* short or a long name with a registered non-separator option always raises
\* the duplicate-option error and leaves the registry unchanged.
C7_AlwaysDuplicateError ==
    (call.op \in AddCalls /\ SharesNameWithRegistered) =>
        (call.raised = "OptionExistException" /\ options = call.pre)

\* C7 amended: such a call always raises and leaves the registry unchanged;
\* the error is the duplicate-option error whenever the call passes the
\* checks that precede the duplicate test, and otherwise the error of the
\* first failing check (std::invalid_argument for a malformed name or a
\* MultiOption default that is not allowed, std::runtime_error for a
\* positional registration after a PositionalList).
C7_DuplicateRejected ==
    (call.op \in AddCalls /\ SharesNameWithRegistered) =>
        /\ call.raised # "none"
        /\ options = call.pre
        /\ PassesEarlierChecks <=> call.raised = "OptionExistException"

\* C7 witness: a well-formed option with a registered long name was refused
\* as a duplicate, and the registry kept its one entry.
C7_Witness ==
    /\ call.op \in AddCalls
    /\ SharesNameWithRegistered
    /\ call.raised = "OptionExistException"
    /\ Len(options) = 1
    /\ options[1].opt_long = call.option.opt_long
    /\ options[1].opt_short # call.option.opt_short

\* Entries i and j of the registry have a non-empty name in common, in
\* the same or in different positions (short/long).
CommonName(i, j) ==
    \E n \in {options[i].opt_short, options[i].opt_long} :
        /\ n # <<>>
        /\ n \in {options[j].opt_short, options[j].opt_long}

\* C8: no two distinct registered non-separator options have a non-empty
\* name in common, so that at most one option answers to any name.
C8_NamesIdentifyOptions ==
    \A i, j \in 1..Len(options) :
        (i # j /\ options[i].kind # "Separator" /\ options[j].kind # "Separator")
            => ~CommonName(i, j)

\* C9: addSeparator never raises the duplicate error, and another add* call
\* raises it only when a name of the new option collides with a registered
\* non-separator option.
C9_SeparatorsExempt ==
    /\ call.op = "addSeparator" => call.raised = "none"
    /\ (call.op \in AddCalls /\ call.raised = "OptionExistException")
           => SharesNameWithRegistered

\* C10: the registry holds at most one PositionalList and no PositionalOption
\* after it; addPositionalList and addPositionalOption called when a list
\* exists raise and leave the registry unchanged.
C10_PositionalListLast ==
    /\ \A i, j \in 1..Len(options) :
           (i < j /\ options[i].kind = "PositionalList")
               => options[j].kind \notin {"PositionalList", "PositionalOption"}
    /\ (/\ call.op \in {"addPositionalOption", "addPositionalList"}
        /\ \E i \in 1..Len(call.pre) : call.pre[i].kind = "PositionalList")
           => (call.raised # "none" /\ options = call.pre)

\* C10 witness: a positional registration was refused because the registry
\* already holds a PositionalList, behind which another entry was added.
C10_Witness ==
    /\ call.op \in {"addPositionalOption", "addPositionalList"}
    /\ call.raised = "std::runtime_error"
    /\ Len(options) = 2
    /\ options[1].kind = "PositionalList"
    /\ options = call.pre

-----------------------------------------------------------------------------
(* MultiOption claims. *)

\* The values of a sequence of strings, as a set.
Members(strs) == {strs[i] : i \in 1..Len(strs)}

\* The value the arguments hold for option o: the one found for its short
\* name, and for its long name when the short name yields none.
FoundValue(o) ==
    IF Tokenizer_getOption(tokens, o.opt_short) # <<>>
    THEN Tokenizer_getOption(tokens, o.opt_short)
    ELSE Tokenizer_getOption(tokens, o.opt_long)

\* C1: every registered MultiOption has a non-empty allowed_values and a
\* selected_value that is one of them, after every add* and parseOptions
\* call, raising or not; addMultiOption with a default outside the allowed
\* values raises and registers nothing.
C1_SelectedValueAllowed ==
    /\ \A i \in 1..Len(options) :
           options[i].kind = "MultiOption" =>
               /\ options[i].allowed_values # <<>>
               /\ options[i].selected_value \in Members(options[i].allowed_values)
    /\ (/\ call.op = "addMultiOption"
        /\ call.option.selected_value \notin Members(call.option.allowed_values))
           => (call.raised = "std::invalid_argument" /\ options = call.pre)

\* C1 witness: parseOptions raised on a value outside the allowed values of
\* a registered MultiOption.
C1_Witness ==
    /\ call.op = "parseOptions"
    /\ call.raised = "std::invalid_argument"
    /\ options[call.fail_at].kind = "MultiOption"
    /\ FoundValue(options[call.fail_at]) \notin Members(options[call.fail_at].allowed_values)

\* C2: after a parseOptions call, a MultiOption for which the arguments hold
\* no value has its registered default; one for which they hold an allowed
\* value has that value, when the call reached it (it returned, or raised at
\* a later entry); and when they hold a value that is not allowed, the call
\* raised std::invalid_argument and the option's selected_value is the one
\* it had before the call.
C2_MultiOptionOutcome ==
    call.op = "parseOptions" =>
        \A i \in 1..Len(options) :
            options[i].kind = "MultiOption" =>
                LET found == FoundValue(options[i])
                IN  /\ found = <<>> =>
                           options[i].selected_value = registered[i].selected_value
                    /\ (/\ found # <<>>
                        /\ found \in Members(options[i].allowed_values)
                        /\ (call.raised = "none" \/ i < call.fail_at))
                           => options[i].selected_value = found
                    /\ (/\ found # <<>>
                        /\ found \notin Members(options[i].allowed_values))
                           => /\ call.raised = "std::invalid_argument"
                              /\ options[i].selected_value = call.pre[i].selected_value

\* C2 witness: one parseOptions call that returned left one MultiOption at
\* its default, for lack of a value, and moved another to the value found.
C2_Witness ==
    /\ call.op = "parseOptions"
    /\ call.raised = "none"
    /\ \E i, j \in 1..Len(options) :
           /\ options[i].kind = "MultiOption"
           /\ options[j].kind = "MultiOption"
           /\ FoundValue(options[i]) = <<>>
           /\ options[i].selected_value = registered[i].selected_value
           /\ FoundValue(options[j]) # <<>>
           /\ options[j].selected_value = FoundValue(options[j])
           /\ options[j].selected_value # registered[j].selected_value

\* C2 witness of the refusal: parseOptions raised on the second MultiOption,
\* whose value in the arguments is not allowed and which holds what it held
\* before the call, after it had given the first one its value.
C2_WitnessRefused ==
    /\ call.op = "parseOptions"
    /\ call.raised = "std::invalid_argument"
    /\ call.fail_at = 2
    /\ options[1].selected_value # call.pre[1].selected_value
    /\ FoundValue(options[2]) \notin Members(options[2].allowed_values)
    /\ options[2].selected_value = call.pre[2].selected_value

-----------------------------------------------------------------------------
(* Positional claims, checked under SpecPositional. *)

\* The positions of the positional tokens of toks for the registry opts: a
\* token after the program name that is not option-like and does not follow
\* an option-like token other than the name of a registered toggle.
PositionalIndices(toks, opts) ==
    {it \in 2..Len(toks) :
        /\ ~isOption(toks[it])
        /\ (isOption(toks[it - 1]) => isToggle(opts, toks[it - 1]))}

\* The positional tokens in left-to-right order.
PositionalTokens(toks, opts) ==
    LET idx == PositionalIndices(toks, opts)
    IN  [n \in 1..Cardinality(idx) |->
            toks[CHOOSE it \in idx : Cardinality({j \in idx : j <= it}) = n]]

\* The rank of entry i among the PositionalOptions, in registration order.
PositionalRank(opts, i) ==
    Cardinality({j \in 1..i : opts[j].kind = "PositionalOption"})

\* C3: after a parseOptions call the i-th registered PositionalOption holds
\* the i-th positional token when there is one and its registered default
\* otherwise, and the PositionalList holds what it held before the call
\* followed by the positional tokens after the k-th (k the number of
\* PositionalOptions), in order: exactly those tokens after the first call.
C3_PositionalAssignment ==
    (call.op = "parseOptions" /\ call.raised = "none") =>
        LET pos  == PositionalTokens(tokens, options)
            k    == PositionalRank(options, Len(options))
            rest == SubSeq(pos, k + 1, Len(pos))
        IN  \A i \in 1..Len(options) :
                /\ options[i].kind = "PositionalOption" =>
                       IF PositionalRank(options, i) <= Len(pos)
                       THEN options[i].value = pos[PositionalRank(options, i)]
                       ELSE options[i].value = registered[i].value
                /\ options[i].kind = "PositionalList" =>
                       /\ options[i].values = call.pre[i].values \o rest
                       /\ parse_calls = 1 => options[i].values = rest

\* C3 witness: the first parse gave the two PositionalOptions the first two
\* positional tokens and the list, registered after them, the two that follow.
C3_Witness ==
    /\ call.op = "parseOptions"
    /\ parse_calls = 1
    /\ Len(options) = 3
    /\ options[1].kind = "PositionalOption" /\ options[1].value = <<"a">>
    /\ options[2].kind = "PositionalOption" /\ options[2].value = <<"b">>
    /\ options[3].kind = "PositionalList"
    /\ options[3].values = << <<"-", "5">>, <<"a">> >>

\* C3 witness, interleaved: a toggle stands between the PositionalOption and
\* the list, the token after the toggle's name is positional, the one after
\* another option-like token is not, and the list is left empty.
C3_WitnessInterleaved ==
    /\ call.op = "parseOptions"
    /\ tokens = <<Prog, <<"-", "t">>, <<"b">>, <<"-", "o">>, <<"a">> >>
    /\ Len(options) = 3
    /\ options[1].kind = "PositionalOption" /\ options[1].value = <<"b">>
    /\ options[2].kind = "ToggleOption"
    /\ options[3].kind = "PositionalList" /\ options[3].values = <<>>

-----------------------------------------------------------------------------
(* Toggle claims, checked under SpecToggle. *)

\* A name of entry i occurs as an exact token after the program name.
NameOccurs(i) ==
    \E k \in 2..Len(tokens) :
        tokens[k] = options[i].opt_short \/ tokens[k] = options[i].opt_long

\* C4: a parseOptions call never switches a toggle from true to false; a
\* toggle the call reached (every toggle when the call returned) that was
\* registered with default false is toggled if and only if its short or its
\* long name occurs as an exact token after the program name, and one whose
\* names do not occur has its registered default.
C4_ToggleSemantics ==
    call.op = "parseOptions" =>
        \A i \in 1..Len(options) :
            options[i].kind = "ToggleOption" =>
                /\ call.pre[i].toggled => options[i].toggled
                /\ (call.raised = "none" \/ i < call.fail_at) =>
                       /\ ~registered[i].toggled =>
                              (options[i].toggled <=> NameOccurs(i))
                       /\ ~NameOccurs(i) =>
                              options[i].toggled = registered[i].toggled

\* C4 witness: a returned parse switched on a toggle registered off whose
\* long name alone is among the tokens, and left off another one of which
\* no name is a token.
C4_Witness ==
    /\ call.op = "parseOptions"
    /\ call.raised = "none"
    /\ \E i, j \in 1..Len(options) :
           /\ options[i].kind = "ToggleOption"
           /\ ~registered[i].toggled /\ options[i].toggled
           /\ \E k \in 2..Len(tokens) : tokens[k] = options[i].opt_long
           /\ \A k \in 2..Len(tokens) : tokens[k] # options[i].opt_short
           /\ options[j].kind = "ToggleOption"
           /\ ~registered[j].toggled /\ ~options[j].toggled

-----------------------------------------------------------------------------
(* Value claims, checked under SpecValue. *)

\* Token tok matches name: it is the name, it is the long name followed by
\* "=" and a value, or it is the two-character short name followed by a value.
Matches(tok, name) ==
    \/ tok = name
    \/ /\ Len(name) > 2
       /\ SubSeq(name, 1, 2) = <<"-", "-">>
       /\ StartsWith(tok, name \o <<"=">>)
    \/ /\ Len(name) = 2
       /\ name[1] = "-"
       /\ StartsWith(tok, name)
       /\ Len(tok) > 2

\* No token after the program name matches a name of entry i.
Unmatched(i) ==
    \A k \in 2..Len(tokens) :
        /\ ~Matches(tokens[k], options[i].opt_short)
        /\ ~Matches(tokens[k], options[i].opt_long)

\* C5: after a parseOptions call a ValueOption registered with required=false
\* of which no token after the program name matches the short or the long
\* name, exactly or in compact form, holds the default string given at
\* registration, and getOption<string> returns that string for its names.
C5_UnmatchedKeepsDefault ==
    call.op = "parseOptions" =>
        \A i \in 1..Len(options) :
            (/\ options[i].kind = "ValueOption"
             /\ ~options[i].required
             /\ Unmatched(i)) =>
                /\ options[i].value = registered[i].value
                /\ \A n \in {options[i].opt_short, options[i].opt_long} :
                       OptionList_find(options, n) = i =>
                           getOption_string(options, n) =
                               [raised |-> "none", data |-> registered[i].value]

\* C5 witness: parseOptions returned on arguments that hold tokens but none
\* matching the optional ValueOption -i/--int, which has its default "7".
C5_Witness ==
    /\ call.op = "parseOptions"
    /\ Len(tokens) = 3
    /\ \E i \in 1..Len(options) :
           /\ options[i].kind = "ValueOption"
           /\ options[i].opt_short = <<"-", "i">>
           /\ ~options[i].required
           /\ Unmatched(i)
           /\ getOption_string(options, <<"-", "-", "i", "n", "t">>) =
                  [raised |-> "none", data |-> <<"7">>]

\* A signed number: a sign, then digits with at most one point between them.
SignedNumber(tok) ==
    /\ Len(tok) >= 2
    /\ tok[1] \in {"-", "+"}
    /\ tok[2] \in DigitSet
    /\ tok[Len(tok)] \in DigitSet
    /\ \A c \in 2..Len(tok) : tok[c] \in DigitSet \cup {"."}
    /\ Cardinality({c \in 2..Len(tok) : tok[c] = "."}) <= 1

\* Token tok carries value for name in compact form.
CompactValue(tok, name, value) ==
    /\ tok # name
    /\ Matches(tok, name)
    /\ value = IF Len(name) = 2 THEN SubSeq(tok, 3, Len(tok))
               ELSE SubSeq(tok, Len(name) + 2, Len(tok))

\* C6: the value a lookup returns for a name of a ValueOption is the token
\* after an exact occurrence of the name only when the tokenizer does not
\* class that token as an option (otherwise it comes from a compact form);
\* after a parseOptions call a ValueOption whose only matching token is an
\* exact occurrence of one of its names followed by a signed number holds
\* that number, and getOption<int> returns -42 when the number is -42.
C6_ValueLookup ==
    \A i \in 1..Len(options) :
        options[i].kind = "ValueOption" =>
            /\ \A n \in {options[i].opt_short, options[i].opt_long} :
                   LET value == Tokenizer_getOption(tokens, n)
                   IN  value # <<>> =>
                           \E k \in 2..Len(tokens) :
                               \/ /\ tokens[k] = n
                                  /\ k < Len(tokens)
                                  /\ tokens[k + 1] = value
                                  /\ ~isOption(value)
                               \/ CompactValue(tokens[k], n, value)
            /\ call.op = "parseOptions" =>
                   \A k \in 2..(Len(tokens) - 1) :
                       (/\ tokens[k] \in {options[i].opt_short, options[i].opt_long}
                        /\ SignedNumber(tokens[k + 1])
                        /\ \A j \in 2..Len(tokens) :
                               j # k => /\ ~Matches(tokens[j], options[i].opt_short)
                                        /\ ~Matches(tokens[j], options[i].opt_long)) =>
                           /\ options[i].value = tokens[k + 1]
                           /\ (tokens[k + 1] = <<"-", "4", "2">>
                               /\ OptionList_find(options, tokens[k]) = i) =>
                                  getOption_int(options, tokens[k]) =
                                      [raised |-> "none", data |-> 0 - 42]

\* C6 witness: the arguments were --int -42 and after parseOptions the
\* option holds "-42" and getOption<int> gives -42.
C6_Witness ==
    /\ call.op = "parseOptions"
    /\ tokens = <<Prog, <<"-", "-", "i", "n", "t">>, <<"-", "4", "2">> >>
    /\ \E i \in 1..Len(options) :
           /\ options[i].opt_long = <<"-", "-", "i", "n", "t">>
           /\ options[i].value = <<"-", "4", "2">>
    /\ getOption_int(options, <<"-", "-", "i", "n", "t">>).data = 0 - 42

\* C6 witness, refused: the arguments were --int -v and after parseOptions
\* the option still holds its default.
C6_WitnessRefused ==
    /\ call.op = "parseOptions"
    /\ tokens = <<Prog, <<"-", "-", "i", "n", "t">>, <<"-", "v">> >>
    /\ \E i \in 1..Len(options) :
           /\ options[i].opt_long = <<"-", "-", "i", "n", "t">>
           /\ options[i].value = <<"7">>

-----------------------------------------------------------------------------
(* Requiredness claims, checked under SpecRequired. *)

\* The arguments supply no value for entry i: no value is found for the
\* names of a ValueOption, there are fewer positional tokens than the rank
\* of a PositionalOption, none is left over for a PositionalList.
NoArgument(i) ==
    CASE options[i].kind = "ValueOption" -> FoundValue(options[i]) = <<>>
      [] options[i].kind = "PositionalOption" ->
             PositionalRank(options, i) > Len(PositionalTokens(tokens, options))
      [] options[i].kind = "PositionalList" ->
             Len(PositionalTokens(tokens, options)) <=
                 PositionalRank(options, Len(options))
      [] OTHER -> FALSE

\* The required entries for which the arguments supply no value.
UnresolvedRequired ==
    {i \in 1..Len(options) : options[i].required /\ NoArgument(i)}

\* C11: parseOptions returns normally and sets the parsed flag whatever
\* required ValueOption, PositionalOption or PositionalList has no argument,
\* it leaves each of them as registered, and no call other than
\* validateOptions raises ParsingError.
C11_ParseDefersMissing ==
    /\ call.op = "parseOptions" =>
           /\ call.raised = "none"
           /\ option_parsed
           /\ \A i \in UnresolvedRequired : options[i] = registered[i]
    /\ call.raised = "ParsingError" => call.op = "validateOptions"

\* C11 witness: parseOptions returned although a required ValueOption and a
\* required positional entry have no argument.
C11_Witness ==
    /\ call.op = "parseOptions"
    /\ call.raised = "none"
    /\ \E i, j \in UnresolvedRequired :
           /\ options[i].kind = "ValueOption"
           /\ options[i].value = <<>>
           /\ options[j].kind \in {"PositionalOption", "PositionalList"}

\* C11 witness of the report: validateOptions, called after parseOptions,
\* raised ParsingError.
C11_WitnessReported ==
    /\ call.op = "validateOptions"
    /\ call.raised = "ParsingError"
    /\ option_parsed

\* C12: parseOptions raises ParsingError when a required ValueOption,
\* PositionalOption or PositionalList has no argument.
C12_ParseRaisesOnMissing ==
    (call.op = "parseOptions" /\ UnresolvedRequired # {}) =>
        call.raised = "ParsingError"

\* C13: validateOptions, called after parseOptions, raises ParsingError if
\* and only if the arguments supplied no value for some required
\* ValueOption, PositionalOption or PositionalList.
C13_ValidateIffUnresolved ==
    (call.op = "validateOptions" /\ parse_calls >= 1) =>
        (call.raised = "ParsingError" <=> UnresolvedRequired # {})

\* C14: the error of a validateOptions call, called after parseOptions,
\* names all the unresolved required options, not only the first (counted
\* here: those that hold no value, which the test of validateOptions finds).
C14_ValidateReportsAll ==
    (call.op = "validateOptions" /\ parse_calls >= 1
     /\ call.raised = "ParsingError") =>
        {call.fail_at} = {i \in UnresolvedRequired : isMissing(options[i])}

-----------------------------------------------------------------------------
(* Extra arguments, checked under SpecPositional. *)

\* Positional tokens are left over: there are more of them than registered
\* PositionalOptions and no PositionalList takes the rest.
LeftoverPositional ==
    /\ ~HasPositionalList(options)
    /\ Len(PositionalTokens(tokens, options)) > PositionalRank(options, Len(options))

\* C15: a parseOptions call that leaves positional tokens unconsumed reports
\* an error at its end.
C15_ExtraArgumentsReported ==
    (call.op = "parseOptions" /\ LeftoverPositional) => call.raised # "none"

-----------------------------------------------------------------------------
(* Retrieval claims, checked in the retrieval scenario. *)

\* The last call was getOption<type>.
Asked(type) == call.op = "getOption" /\ call.type = type

\* The registered entries that have name as their short or long name.
NamedBy(name) ==
    {i \in 1..Len(options) : options[i].opt_short = name \/ options[i].opt_long = name}

\* The entry a name reaches: the first one registered under it.
Reached(name) == CHOOSE i \in NamedBy(name) : \A j \in NamedBy(name) : i <= j

\* C16: getOption<T> with a name that is neither the short nor the long
\* name of any registered entry raises std::out_of_range, for T a string, a
\* bool, an int and a list of strings, before and after parsing; nothing is
\* returned.
C16_UnknownNameNotFound ==
    (call.op = "getOption" /\ NamedBy(call.name) = {})
        => call.raised = "std::out_of_range"

\* C16 witness: after a parse and with every entry registered, getOption of
\* a list of strings was asked for a name nobody has and raised
\* std::out_of_range.
C16_Witness ==
    /\ Asked("list")
    /\ parse_calls >= 1
    /\ Len(options) = Len(QueryKinds)
    /\ NamedBy(call.name) = {}
    /\ call.raised = "std::out_of_range"

\* C16 witness, before parsing: getOption<int> of a name not registered yet
\* raised std::out_of_range while other options were registered.
C16_WitnessBefore ==
    /\ Asked("int")
    /\ parse_calls = 0
    /\ options # <<>>
    /\ NamedBy(call.name) = {}
    /\ call.raised = "std::out_of_range"

\* The part of str after its leading white space.
RECURSIVE Unpadded(_)
Unpadded(str) ==
    IF str # <<>> /\ str[1] \in WhiteSpace THEN Unpadded(Tail(str)) ELSE str

\* str spells an integer: white space that the extraction skips, an
\* optional sign, then digits and nothing else.
SpellsInteger(str) ==
    LET first == IF Unpadded(str) # <<>> /\ Unpadded(str)[1] \in {"-", "+"}
                 THEN 2 ELSE 1
    IN  /\ first <= Len(Unpadded(str))
        /\ \A c \in first..Len(Unpadded(str)) : Unpadded(str)[c] \in DigitSet

\* The integer a string of digits spells.
RECURSIVE DigitsValue(_)
DigitsValue(str) ==
    IF str = <<>> THEN 0
    ELSE 10 * DigitsValue(SubSeq(str, 1, Len(str) - 1)) + DigitValue(str[Len(str)])

\* C17: getOption<int> on a registered option that holds a value raises
\* BadConversion whenever the stored string does not spell an integer (it
\* is empty, has no digits, or has characters after the digits); when it
\* returns, the integer is the one the string spells after the white space
\* the extraction skips, never a default.
C17_BadConversionOnUnparsable ==
    (Asked("int") /\ NamedBy(call.name) # {}
                  /\ options[Reached(call.name)].kind \in ValueHolders)
        => LET str == Unpadded(value_str(options[Reached(call.name)]))
           IN  IF SpellsInteger(str)
               THEN call.raised = "none" =>
                        call.data = IF str[1] = "-" THEN 0 - DigitsValue(Tail(str))
                                    ELSE IF str[1] = "+" THEN DigitsValue(Tail(str))
                                    ELSE DigitsValue(str)
               ELSE call.raised = "BadConversion"

\* C17 witness: after a parse stored 12x in the ValueOption, getOption<int>
\* of its name raised BadConversion.
C17_Witness ==
    /\ Asked("int")
    /\ parse_calls >= 1
    /\ call.name = <<"-", "n">>
    /\ options[1].value = <<"1", "2", "x">>
    /\ call.raised = "BadConversion"

\* C17 witness, empty string: getOption<int> of the ValueOption holding the
\* empty string raised BadConversion.
C17_WitnessEmpty ==
    /\ Asked("int")
    /\ call.name = <<"-", "n">>
    /\ options # <<>>
    /\ options[1].value = <<>>
    /\ call.raised = "BadConversion"

\* C17 witness, success: getOption<int> of the ValueOption holding a
\* vertical tab and 7 returned 7.
C17_WitnessConverted ==
    /\ Asked("int")
    /\ call.name = <<"-", "n">>
    /\ options # <<>>
    /\ options[1].value = <<"", "7">>
    /\ call.raised = "none"
    /\ call.data = 7

\* C18: getOption<bool> returns the toggled state of a ToggleOption; for a
\* ValueOption it returns true when the stored string is exactly "true",
\* false when it is exactly "false", and raises BadConversion for every
\* other stored string.
C18_BoolOnlyTrueFalse ==
    (Asked("bool") /\ NamedBy(call.name) # {})
        => LET o == options[Reached(call.name)]
           IN  /\ o.kind = "ToggleOption" =>
                      call.raised = "none" /\ call.data = o.toggled
               /\ o.kind = "ValueOption" =>
                      IF o.value = <<"t", "r", "u", "e">>
                      THEN call.raised = "none" /\ call.data = TRUE
                      ELSE IF o.value = <<"f", "a", "l", "s", "e">>
                      THEN call.raised = "none" /\ call.data = FALSE
                      ELSE call.raised = "BadConversion"

\* C18 witness: getOption<bool> of the ValueOption holding True (capital T)
\* raised BadConversion.
C18_Witness ==
    /\ Asked("bool")
    /\ call.name = <<"-", "n">>
    /\ options # <<>>
    /\ options[1].value = <<"T", "r", "u", "e">>
    /\ call.raised = "BadConversion"

\* C18 witness, toggle: after a parse that found -t, getOption<bool> of the
\* toggle returned true.
C18_WitnessToggled ==
    /\ Asked("bool")
    /\ call.name = <<"-", "-", "t", "o", "g">>
    /\ parse_calls >= 1
    /\ options[2].toggled
    /\ call.raised = "none"
    /\ call.data = TRUE

\* C18 witness, value: getOption<bool> of the ValueOption holding false
\* returned false.
C18_WitnessFalse ==
    /\ Asked("bool")
    /\ call.name = <<"-", "n">>
    /\ options # <<>>
    /\ options[1].value = <<"f", "a", "l", "s", "e">>
    /\ call.raised = "none"
    /\ call.data = FALSE

\* C19: getOption<std::string> raises nothing for the name of a registered
\* option of any kind (the separator, which is not an option, left aside)
\* and returns what the option stores.
C19_StringNeverFails ==
    (Asked("string") /\ NamedBy(call.name) # {}
                     /\ options[Reached(call.name)].kind # "Separator")
        => /\ call.raised = "none"
           /\ options[Reached(call.name)].kind \in ValueHolders
                  => call.data = value_str(options[Reached(call.name)])

-----------------------------------------------------------------------------
(* Token classification claim, checked in the classification scenario. *)

\* str without a leading sign.
Unsigned(str) == IF str # <<>> /\ str[1] \in {"-", "+"} THEN Tail(str) ELSE str

\* Digits with at most one point among them, after an optional sign.
Mantissa(str) ==
    LET body == Unsigned(str)
    IN  /\ \A c \in 1..Len(body) : body[c] \in DigitSet \cup {"."}
        /\ \E c \in 1..Len(body) : body[c] \in DigitSet
        /\ Cardinality({c \in 1..Len(body) : body[c] = "."}) <= 1

\* One or more digits after an optional sign.
Exponent(str) ==
    LET body == Unsigned(str)
    IN  body # <<>> /\ \A c \in 1..Len(body) : body[c] \in DigitSet

\* tok reads, whole, as a signed number or decimal: a mantissa, then
\* possibly e or E and an exponent.
ParsesAsNumber(tok) ==
    LET marks == {c \in 1..Len(tok) : tok[c] \in {"e", "E"}}
    IN  IF marks = {} THEN Mantissa(tok)
        ELSE /\ Cardinality(marks) = 1
             /\ \A c \in marks : /\ Mantissa(SubSeq(tok, 1, c - 1))
                                 /\ Exponent(SubSeq(tok, c + 1, Len(tok)))

\* C20: Tokenizer::isOption(token) is true exactly when the token starts
\* with '-' and does not read, whole, as a signed number or decimal.
C20_IsOptionClassification ==
    call.op = "isOption"
        => (call.data <=> /\ call.token # <<>>
                          /\ call.token[1] = "-"
                          /\ ~ParsesAsNumber(call.token))

-----------------------------------------------------------------------------
(* Boolean retrieval from the other kinds, checked in the retrieval        *)
(* scenario.                                                               *)

\* C30: getOption<bool> on a registered MultiOption or PositionalOption
\* raises BadConversion whatever string it holds, "true" and "false"
\* included; a boolean is returned only for a ToggleOption or a ValueOption.
C30_BoolOnlyFromToggleOrValue ==
    (Asked("bool") /\ NamedBy(call.name) # {})
        => LET o == options[Reached(call.name)]
           IN  /\ o.kind \in {"MultiOption", "PositionalOption"}
                      => call.raised = "BadConversion"
               /\ call.raised = "none" => o.kind \in {"ToggleOption", "ValueOption"}

\* C30 witness: getOption<bool> of the MultiOption whose selected value is
\* exactly "true" raised BadConversion.
C30_Witness ==
    /\ Asked("bool")
    /\ call.name = <<"-", "m">>
    /\ Len(options) >= 3
    /\ options[3].kind = "MultiOption"
    /\ options[3].selected_value = <<"t", "r", "u", "e">>
    /\ call.raised = "BadConversion"

\* C30 witness, positional: after a parse, getOption<bool> of the
\* PositionalOption holding "true" raised BadConversion.
C30_WitnessPositional ==
    /\ Asked("bool")
    /\ call.name = <<"-", "-", "p", "o", "s">>
    /\ parse_calls >= 1
    /\ options[4].kind = "PositionalOption"
    /\ options[4].value = <<"t", "r", "u", "e">>
    /\ call.raised = "BadConversion"

-----------------------------------------------------------------------------
(* Re-parsing, checked in the retrieval scenario, where options of every   *)
(* kind are registered before parseOptions is called more than once.       *)

\* n copies of the sequence s, one after the other.
RECURSIVE Copies(_, _)
Copies(s, n) == IF n = 0 THEN <<>> ELSE s \o Copies(s, n - 1)

\* The positional tokens left for the list: those after the ones the
\* PositionalOptions take.
PositionalRemainder ==
    LET pos == PositionalTokens(tokens, options)
        k   == PositionalRank(options, Len(options))
    IN  SubSeq(pos, k + 1, Len(pos))

\* C28: a parseOptions call after the first leaves every ValueOption,
\* ToggleOption, MultiOption and PositionalOption as the call before left
\* it, and appends the positional remainder to the PositionalList once
\* more: after n calls the list holds n copies of the remainder.
C28_ReparseAppendsToList ==
    (call.op = "parseOptions" /\ call.raised = "none") =>
        \A i \in 1..Len(options) :
            /\ (parse_calls >= 2 /\ options[i].kind \in ValueHolders)
                   => options[i] = call.pre[i]
            /\ options[i].kind = "PositionalList"
                   => options[i].values = Copies(PositionalRemainder, parse_calls)

\* C28 witness: the second parseOptions call returned with the toggle set,
\* the PositionalOption holding the first positional token and the list
\* holding the one-token remainder twice.
C28_Witness ==
    /\ call.op = "parseOptions"
    /\ parse_calls = 2
    /\ tokens = <<Prog, <<"-", "t">>, <<"1", "2", "x">>, <<"1", "2", "x">> >>
    /\ options[2].toggled
    /\ options[4].value = <<"1", "2", "x">>
    /\ options[5].values = << <<"1", "2", "x">>, <<"1", "2", "x">> >>

-----------------------------------------------------------------------------
(* Failure of parseOptions, checked in the toggle scenario, where toggles  *)
(* stand before and after a MultiOption whose value is refused.            *)

\* C29: when parseOptions raises because a MultiOption was given a value
\* outside its allowed set, every toggle registered before it holds what
\* the arguments say (it is set when one of its names is a token), the
\* MultiOption keeps the selected_value it had, every entry registered
\* after it is as it was before the call, and the parsed flag is false.
C29_FailureLeavesPartialState ==
    (call.op = "parseOptions" /\ call.raised = "std::invalid_argument") =>
        /\ options[call.fail_at].kind = "MultiOption"
        /\ options[call.fail_at].selected_value = call.pre[call.fail_at].selected_value
        /\ \A i \in 1..(call.fail_at - 1) :
               options[i].kind = "ToggleOption" =>
                   (options[i].toggled <=> (call.pre[i].toggled \/ NameOccurs(i)))
        /\ \A i \in (call.fail_at + 1)..Len(options) : options[i] = call.pre[i]
        /\ ~option_parsed

\* C29 witness: the first parseOptions call raised at the MultiOption
\* registered second; the toggle before it was switched on by the call, the
\* toggle after it is still off although its name is a token.
C29_Witness ==
    /\ call.op = "parseOptions"
    /\ call.raised = "std::invalid_argument"
    /\ parse_calls = 1
    /\ call.fail_at = 2
    /\ Len(options) = 3
    /\ options[1].kind = "ToggleOption"
    /\ ~call.pre[1].toggled /\ options[1].toggled
    /\ options[3].kind = "ToggleOption"
    /\ NameOccurs(3) /\ ~options[3].toggled

-----------------------------------------------------------------------------
(* Lookup claims, checked in the lookup scenario.  Option-like is what     *)
(* Tokenizer::isOption accepts.                                            *)

\* The first parseOptions call of the lookup program has returned.
FirstParseReturned ==
    /\ call.op = "parseOptions"
    /\ call.raised = "none"
    /\ parse_calls = 1

\* The token at position it is the name of a registered toggle.
ToggleName(it) ==
    \E i \in 1..Len(options) :
        /\ options[i].kind = "ToggleOption"
        /\ tokens[it] \in {options[i].opt_short, options[i].opt_long}

\* The positions the claim calls positional: after the program name, not
\* option-like, and not right after an option-like token other than the
\* name of a registered toggle.
ClaimedPositional ==
    {it \in 2..Len(tokens) :
        /\ ~isOption(tokens[it])
        /\ ~(isOption(tokens[it - 1]) /\ ~ToggleName(it - 1))}

\* The tokens at the positions of idx, from left to right.
TokensAt(idx) ==
    [n \in 1..Cardinality(idx) |->
        tokens[CHOOSE it \in idx : Cardinality({j \in idx : j <= it}) = n]]

\* C21: the tokens parseOptions treats as positional arguments, which the
\* PositionalList of the lookup program collects, are exactly those that
\* are not option-like and do not come right after an option-like token
\* other than a registered toggle's name.
C21_PositionalClassification ==
    FirstParseReturned => options[4].values = TokensAt(ClaimedPositional)

\* C21 witness: the token after the toggle's name was collected, and so
\* was the token after that one.
C21_Witness ==
    /\ FirstParseReturned
    /\ tokens = <<Prog, <<"-", "t">>, <<"v">>, <<"w">> >>
    /\ options[2].toggled
    /\ options[4].values = << <<"v">>, <<"w">> >>

\* C21 witness, other option: the token after the name of an option that
\* is not registered was not collected, the one after it was.
C21_WitnessUnregistered ==
    /\ FirstParseReturned
    /\ tokens = <<Prog, <<"-", "z">>, <<"w">>, <<"v">> >>
    /\ options[4].values = << <<"v">> >>

\* C21 witness, compact form: the token after a token in compact form was
\* not collected, the one after it was.
C21_WitnessCompact ==
    /\ FirstParseReturned
    /\ tokens = <<Prog, <<"-", "-", "o", "u", "t", "=", "v">>, <<"w">>, <<"v">> >>
    /\ options[4].values = << <<"v">> >>

\* The values the tokens attach to name: the token after an exact
\* occurrence when it is not option-like, and the rest of a token that
\* carries the name in compact form.
AttachedValues(name) ==
    {tokens[k + 1] : k \in {j \in 2..(Len(tokens) - 1) :
                                tokens[j] = name /\ ~isOption(tokens[j + 1])}}
    \cup
    {IF Len(name) = 2 THEN SubSeq(tokens[k], 3, Len(tokens[k]))
                      ELSE SubSeq(tokens[k], Len(name) + 2, Len(tokens[k])) :
         k \in {j \in 2..Len(tokens) : tokens[j] # name /\ Matches(tokens[j], name)}}

\* C22: after parseOptions a ValueOption or MultiOption holds the value
\* the lookup of its short name gives when that lookup gives one, and the
\* value the lookup of its long name gives only otherwise; so when the
\* arguments attach values to both names it holds one attached to the
\* short name, whichever name comes first.
C22_ShortNameFirst ==
    FirstParseReturned =>
        \A i \in 1..Len(options) :
            options[i].kind \in {"ValueOption", "MultiOption"} =>
                LET by_short == Tokenizer_getOption(tokens, options[i].opt_short)
                    by_long  == Tokenizer_getOption(tokens, options[i].opt_long)
                    stored   == value_str(options[i])
                IN  /\ by_short # <<>> => stored = by_short
                    /\ (by_short = <<>> /\ by_long # <<>>) => stored = by_long
                    /\ AttachedValues(options[i].opt_short) # {}
                           => stored \in AttachedValues(options[i].opt_short)

\* C22 witness: the long name comes first with the value v, the short name
\* after it with the value w, and the ValueOption holds w.
C22_Witness ==
    /\ FirstParseReturned
    /\ tokens = <<Prog, <<"-", "-", "o", "u", "t", "=", "v">>, <<"-", "o">>, <<"w">> >>
    /\ options[1].value = <<"w">>

\* C22 witness, MultiOption: the long name comes first with the value w,
\* the short name after it with the value v, and the MultiOption selects v.
C22_WitnessMulti ==
    /\ FirstParseReturned
    /\ tokens = <<Prog, <<"-", "-", "m", "o", "d", "e", "=", "w">>, <<"-", "m">>, <<"v">> >>
    /\ options[3].selected_value = <<"v">>

\* C22 witness, long name only: the short name has no value and the
\* ValueOption holds the value of the long name.
C22_WitnessLongOnly ==
    /\ FirstParseReturned
    /\ tokens = <<Prog, <<"-", "-", "o", "u", "t">>, <<"v">>, <<"-", "o">> >>
    /\ options[1].value = <<"v">>

\* The positions of the tokens that are occurrences of name, in the plain
\* or in a compact form.
OccurrencesOf(name) == {k \in 2..Len(tokens) : Matches(tokens[k], name)}

\* The value the occurrence of name at position k carries: the next token
\* when it is there and not option-like, the rest of a compact token, and
\* the empty string when there is none.
CarriedAt(k, name) ==
    IF tokens[k] = name
    THEN IF k < Len(tokens) /\ ~isOption(tokens[k + 1]) THEN tokens[k + 1] ELSE <<>>
    ELSE IF Len(name) = 2 THEN SubSeq(tokens[k], 3, Len(tokens[k]))
    ELSE SubSeq(tokens[k], Len(name) + 2, Len(tokens[k]))

\* The first occurrence of a name that occurs.
FirstOccurrence(name) ==
    CHOOSE k \in OccurrencesOf(name) : \A j \in OccurrencesOf(name) : k <= j

\* C23: when one name of a ValueOption or MultiOption occurs several times
\* in the arguments (and its other name does not occur), only the first
\* occurrence counts: after parseOptions the option holds the value the
\* first occurrence carries, or its registered default when that occurrence
\* carries none; a later occurrence never supplies the value.
C23_FirstOccurrenceOnly ==
    FirstParseReturned =>
        \A i \in 1..Len(options) :
            options[i].kind \in {"ValueOption", "MultiOption"} =>
                \A n \in {<<options[i].opt_short, options[i].opt_long>>,
                          <<options[i].opt_long, options[i].opt_short>>} :
                    (OccurrencesOf(n[1]) # {} /\ OccurrencesOf(n[2]) = {}) =>
                        value_str(options[i]) =
                            IF CarriedAt(FirstOccurrence(n[1]), n[1]) # <<>>
                            THEN CarriedAt(FirstOccurrence(n[1]), n[1])
                            ELSE value_str(registered[i])

-----------------------------------------------------------------------------
(* Compact forms, checked in the compact-form scenario. *)

\* The text of tok after its first "=".
AfterFirstEquals(tok) ==
    LET e == CHOOSE c \in 1..Len(tok) :
                 tok[c] = "=" /\ \A b \in 1..(c - 1) : tok[b] # "="
    IN  SubSeq(tok, e + 1, Len(tok))

\* tok is a compact form of name as the claim has it: for a long name, the
\* name and "="; for a short name of exactly two characters, the name and
\* at least one more character.
ClaimedCompact(tok, name, is_long) ==
    IF is_long THEN StartsWith(tok, name \o <<"=">>)
    ELSE Len(name) = 2 /\ StartsWith(tok, name) /\ Len(tok) > 2

\* The value the lookup of name gives from position it on, with the
\* compact forms as the claim has them.
RECURSIVE ClaimedValueFrom(_, _, _)
ClaimedValueFrom(name, is_long, it) ==
    IF it > Len(tokens) THEN <<>>
    ELSE IF tokens[it] = name
    THEN IF it < Len(tokens) /\ ~isOption(tokens[it + 1])
         THEN tokens[it + 1]
         ELSE ClaimedValueFrom(name, is_long, it + 1)
    ELSE IF ClaimedCompact(tokens[it], name, is_long)
    THEN IF is_long THEN AfterFirstEquals(tokens[it])
         ELSE SubSeq(tokens[it], 3, Len(tokens[it]))
    ELSE ClaimedValueFrom(name, is_long, it + 1)

\* C24: the lookup of a long name takes a token --name=value and gives the
\* text after the first "=", and takes no token that continues the name
\* without "="; the lookup of a short name takes a token -xvalue only when
\* the name has exactly two characters and gives the text after them.
\* After parseOptions each ValueOption holds the value these lookups give,
\* short name first, or its default when they give none.
C24_CompactForms ==
    FirstParseReturned =>
        \A i \in 1..Len(options) :
            options[i].kind = "ValueOption" =>
                LET by_short == ClaimedValueFrom(options[i].opt_short, FALSE, 2)
                    by_long  == ClaimedValueFrom(options[i].opt_long, TRUE, 2)
                IN  options[i].value = IF by_short # <<>> THEN by_short
                                       ELSE IF by_long # <<>> THEN by_long
                                       ELSE registered[i].value

-----------------------------------------------------------------------------
(* The program name, checked in the program-name scenario. *)

\* The registry the first parseOptions call leaves when the vector is the
\* current one with name as its first element.
ParsedUnder(name) ==
    parseLoop([options |-> registered, longest_value |-> call.pre_longest_value,
               pos_arg_index |-> 0, raised |-> "none", fail_at |-> 0],
              [tokens EXCEPT ![1] = name], 1).options

\* C25: the program name plays no part in parsing: after the first
\* parseOptions call every option holds what it would hold had the vector
\* any other first element, and the first element itself is no option's
\* value, toggles nothing and is not collected as a positional argument
\* unless a token after it says so.
C25_ProgramNameSkipped ==
    FirstParseReturned =>
        \A name \in ProgramNames : options = ParsedUnder(name)

-----------------------------------------------------------------------------
(* The frame of parseOptions, checked in the retrieval scenario, where     *)
(* entries of every kind are registered.                                   *)

\* Entry after is entry before but for the value field of its kind.
OnlyValueChanged(before, after) ==
    CASE before.kind \in {"ValueOption", "PositionalOption"}
             -> after = [before EXCEPT !.value = after.value]
      [] before.kind = "ToggleOption"
             -> after = [before EXCEPT !.toggled = after.toggled]
      [] before.kind = "MultiOption"
             -> after = [before EXCEPT !.selected_value = after.selected_value]
      [] before.kind = "PositionalList"
             -> after = [before EXCEPT !.values = after.values]
      [] OTHER -> after = before

\* C26: a parseOptions call leaves the token list, the number and order of
\* the entries and, in each entry, the kind, the names, the required flag
\* and the allowed values as they were; it changes at most the value field
\* of each entry's kind and the longest-value maximum, which never shrinks.
C26_ParseFrame ==
    [][parse_calls' # parse_calls =>
           /\ tokens' = tokens
           /\ Len(options') = Len(options)
           /\ \A i \in 1..Len(options) : OnlyValueChanged(options[i], options'[i])
           /\ longest_short_option' = longest_short_option
           /\ longest_long_option' = longest_long_option
           /\ longest_value' >= longest_value]_vars

\* C26 witness: with the six entries in place, a parseOptions call has set
\* the toggle, given the PositionalOption a token and put one in the list.
C26_Witness ==
    /\ call.op = "parseOptions"
    /\ parse_calls = 1
    /\ Len(options) = Len(QueryKinds)
    /\ \A i \in 1..Len(options) : options[i].kind = QueryKinds[i]
    /\ ~registered[2].toggled /\ options[2].toggled
    /\ options[4].value # registered[4].value
    /\ options[5].values # <<>>

\* C26 witness, value: a parseOptions call has replaced the default of the
\* ValueOption.
C26_WitnessValue ==
    /\ call.op = "parseOptions"
    /\ parse_calls = 1
    /\ options[1].value = <<"1", "2", "x">>
    /\ registered[1].value = <<>>

\* C26 witness, maximum: a parseOptions call has raised the longest-value
\* maximum.
C26_WitnessLongest ==
    /\ call.op = "parseOptions"
    /\ longest_value > call.pre_longest_value

-----------------------------------------------------------------------------
(* Option isolation, checked in the scenario of option names as tokens. *)

\* The tokens after the program name that are exactly a name of a
\* registered ValueOption, MultiOption or ToggleOption other than entry i.
OtherNamesAmongTokens(i) ==
    {tokens[k] : k \in {j \in 2..Len(tokens) :
        \E o \in (1..Len(options)) \ {i} :
            /\ options[o].kind \in {"ValueOption", "MultiOption", "ToggleOption"}
            /\ tokens[j] # <<>>
            /\ tokens[j] \in {options[o].opt_short, options[o].opt_long}}}

\* The token tok and its ends: every non-empty suffix of it.
PartsOf(tok) == {SubSeq(tok, c, Len(tok)) : c \in 1..Len(tok)}

\* C27: a token that is exactly a name of a registered ValueOption,
\* MultiOption or ToggleOption is never data for another entry: after
\* parseOptions no other ValueOption or MultiOption holds it or a part of
\* it, and no PositionalOption or PositionalList holds it.
C27_OptionIsolation ==
    FirstParseReturned =>
        \A i \in 1..Len(options) :
            \A tok \in OtherNamesAmongTokens(i) :
                /\ options[i].kind \in {"ValueOption", "MultiOption"}
                       => value_str(options[i]) \notin PartsOf(tok)
                /\ options[i].kind = "PositionalOption" => options[i].value # tok
                /\ options[i].kind = "PositionalList"
                       => \A n \in 1..Len(options[i].values) : options[i].values[n] # tok

====
